---- MODULE Spec2Model ----
(***************************************************************************)
(* Record/replay device-connection framework of                            *)
(* oscar/SleepLib/deviceconnection.cpp: the tagged event model, the XML    *)
(* recorder, the eagerly indexed replay, the connection manager and the    *)
(* serial port connection whose operations run live or from a replay.      *)
(*                                                                         *)
(* A QString that the code converts (numbers, hex payloads) is modelled by *)
(* what the conversion does: numbers through ToString and a bounded        *)
(* search for the inverse, payload text as a sequence of characters.       *)
(***************************************************************************)
EXTENDS Integers, Sequences, FiniteSets, TLC

\* ------------------------------------------------------------------------
\* Bounds of the model
\* ------------------------------------------------------------------------
\* operation calls issued by the caller in one session
MaxOps == 3
\* event elements of a replay stream that is drawn freely
MaxLog == 2
\* connection objects that can exist at the same time
MaxConns == 2
\* largest number the bounded QString::toLong search recognises
MaxLong == 3
\* size of the buffer the caller passes to read()
ReadSize == 2
\* set() and setValue() calls made on one event after its construction
MaxKeys == 2
\* bytes given to one setData call
MaxBytes == 2
\* calls issued in a session that is about the open-connections map
MaxManagerOps == 4
\* sinks given to DeviceConnectionManager::record in one session
MaxSinks == 2
\* texts given to DeviceConnectionManager::replay in one session
MaxTexts == 2
\* SerialPort objects of the legacy class
MaxFacades == 2
\* getNextEvent calls taken statement by statement in one session
MaxLookups == 2

\* ------------------------------------------------------------------------
\* Program constants
\* ------------------------------------------------------------------------
\* QSerialPort::SerialPortError values used by the code
NoError == 0
DeviceNotFoundError == 1
ReadError == 8
ResourceError == 9
\* the null pointer
NULL == 0

\* ------------------------------------------------------------------------
\* Input domains
\* ------------------------------------------------------------------------
Names == {"COM3"}
\* port names of a session that is about the open-connections map
ManagerNames == {"COM3", "COM4"}
ConnIds == 1..MaxConns
\* bytes a caller writes or a port delivers (0x0A needs the pad digit,
\* 0xFF the upper-casing)
Payloads == {<<>>, <<10>>, <<10, 255>>}
\* buffer content before any read
InitBuf == [i \in 1..ReadSize |-> 0]
\* error() states of the live transport after a call
PortErrors == {NoError, ReadError}
\* the directions argument of setBaudRate and clear
Directions == {3}
\* connection types a caller asks for
ConnTypes == {"serial", "bluetooth"}
\* bytes the live transport delivers to a read
RxData == {[i \in 1..ReadSize |-> IF i = 1 THEN 10 ELSE 255],
           [i \in 1..ReadSize |-> 64 + i]}
\* results of the live QSerialPort::bytesAvailable
AvailResults == {0, 2}
\* arguments of the parameter setters
BaudRates == {9600}
DataBits == {8}
Parities == {0}
StopBits == {1}
FlowControls == {0}

\* ------------------------------------------------------------------------
\* QString helpers
\* ------------------------------------------------------------------------
\* QString::number(qint64)
Number(n) == ToString(n)

LongRange == (0 - 1)..MaxLong

\* QString::toLong(&ok): ok is false and the result 0 unless the text is a number
toLong(s) ==
    IF \E n \in LongRange : ToString(n) = s
    THEN [ok |-> TRUE, val |-> CHOOSE n \in LongRange : ToString(n) = s]
    ELSE [ok |-> FALSE, val |-> 0]

HexDigits == <<"0", "1", "2", "3", "4", "5", "6", "7",
               "8", "9", "A", "B", "C", "D", "E", "F">>

\* QString("%1").arg(byte, 2, 16, QChar('0')).toUpper()
HexByte(b) == <<HexDigits[(b \div 16) + 1], HexDigits[(b % 16) + 1]>>

\* QString::number(i, 16).toUpper()
RECURSIVE HexText(_)
HexText(i) ==
    IF i < 16 THEN HexDigits[i + 1]
    ELSE HexText(i \div 16) \o HexDigits[(i % 16) + 1]

\* hex(int): "0x" and the upper-case hex digits
hex(i) == "0x" \o HexText(i)

\* the numbers the bounded QString::toUInt search recognises
UIntRange == (0..MaxLong) \cup {4292, 60000, 109517}

\* QString::toUInt(&ok, 0): decimal, or hex after "0x"
toUInt(s) ==
    IF \E n \in UIntRange : ToString(n) = s \/ hex(n) = s
    THEN [ok |-> TRUE, val |-> CHOOSE n \in UIntRange : ToString(n) = s \/ hex(n) = s]
    ELSE [ok |-> FALSE, val |-> 0]

\* QStringList::join(QChar(' '))
RECURSIVE JoinSpace(_)
JoinSpace(parts) ==
    IF parts = <<>> THEN <<>>
    ELSE IF Len(parts) = 1 THEN parts[1]
    ELSE parts[1] \o <<" ">> \o JoinSpace(Tail(parts))

\* ------------------------------------------------------------------------
\* XmlReplayEvent: tag, m_keys, m_values, m_data
\* ------------------------------------------------------------------------
EmptyMap == [k \in {} |-> ""]

\* an event as its constructor leaves it; a GetAvailableSerialPortsEvent
\* has the member m_ports as well
XmlReplayEvent(tag) ==
    IF tag = "getAvailableSerialPorts"
    THEN [tag |-> tag, m_keys |-> <<>>, m_values |-> EmptyMap, m_data |-> <<>>,
          m_ports |-> <<>>]
    ELSE [tag |-> tag, m_keys |-> <<>>, m_values |-> EmptyMap, m_data |-> <<>>]

\* XmlReplayEvent::set(name, value): m_values[name] = value; m_keys.append(name)
set(e, name, value) ==
    [e EXCEPT !.m_values = (name :> value) @@ @,
              !.m_keys = Append(@, name)]

\* XmlReplayEvent::setData
setData(e, bytes) ==
    [e EXCEPT !.m_data = JoinSpace([i \in 1..Len(bytes) |-> HexByte(bytes[i])])]

\* QString::split(" "): the empty text gives one empty part
RECURSIVE SplitSpace(_)
SplitSpace(text) ==
    IF \E k \in 1..Len(text) : text[k] = " "
    THEN LET k == CHOOSE k \in 1..Len(text) :
                      text[k] = " " /\ \A j \in 1..(k - 1) : text[j] # " "
         IN  <<SubSeq(text, 1, k - 1)>> \o SplitSpace(SubSeq(text, k + 1, Len(text)))
    ELSE <<text>>

LowerHexDigits == <<"0", "1", "2", "3", "4", "5", "6", "7",
                    "8", "9", "a", "b", "c", "d", "e", "f">>

IsHexDigit(ch) == \E d \in 1..16 : HexDigits[d] = ch \/ LowerHexDigits[d] = ch
HexDigitValue(ch) ==
    (CHOOSE d \in 1..16 : HexDigits[d] = ch \/ LowerHexDigits[d] = ch) - 1

RECURSIVE HexNumber(_)
HexNumber(part) ==
    IF part = <<>> THEN 0
    ELSE 16 * HexNumber(SubSeq(part, 1, Len(part) - 1))
         + HexDigitValue(part[Len(part)])

\* QString::toShort(&ok, 16): 0 and not ok for a text that is no hex number
\* of 16 bits
toShort(part) ==
    IF part # <<>> /\ Len(part) <= 4 /\ (\A k \in 1..Len(part) : IsHexDigit(part[k]))
       /\ HexNumber(part) <= 32767
    THEN [ok |-> TRUE, val |-> HexNumber(part)]
    ELSE [ok |-> FALSE, val |-> 0]

\* XmlReplayEvent::getData: one byte per part of the text
getData(e) ==
    LET bytes == SplitSpace(e.m_data)
    IN  [i \in 1..Len(bytes) |-> toShort(bytes[i]).val % 256]

\* XmlReplayEvent::get: the value, or the empty string when the key is missing
get(e, name) == IF name \in DOMAIN e.m_values THEN e.m_values[name] ELSE ""

\* ok that overlooks the "error" attribute
ok_always(e) == TRUE

\* XmlReplayEvent::ok
ok(e) == ~("error" \in DOMAIN e.m_values)

usesData(tag) == tag \in {"rx", "tx"}

\* copyIf that copies nothing
copyIf_none(e, events, other) == e

\* XmlReplayEvent::copyIf(other): other is a pointer into the events of a
\* replay; the null pointer leaves the event alone
copyIf(e, events, other) ==
    IF other = NULL THEN e
    ELSE [e EXCEPT !.m_values = events[other].m_values,
                   !.m_keys = events[other].m_keys,
                   !.m_data = events[other].m_data]

\* QList::first() of an empty list has no defined result: the process is
\* terminated (the Q_ASSERT of first(), or the read of an invalid QString),
\* or the call returns some value, for which NoFirst stands
NoFirst == "<first() of empty list>"
FirstOfEmptyOutcomes == {"terminated", "value"}

\* id() without the override of TransmitDataEvent
id_noPayload(e) ==
    IF e.tag \in {"set", "get"}
    THEN (IF e.m_keys = <<>> THEN NoFirst ELSE e.m_keys[1])
    ELSE IF e.tag \in {"openConnection", "closeConnection"}
    THEN get(e, "name")
    ELSE ""

\* the virtual id() of each event class
id(e) ==
    IF e.tag \in {"set", "get"}
    THEN (IF e.m_keys = <<>> THEN NoFirst ELSE e.m_keys[1])
    ELSE IF e.tag \in {"openConnection", "closeConnection"}
    THEN get(e, "name")
    ELSE IF e.tag = "tx" THEN e.m_data
    ELSE ""

\* event constructors
SetValueEvent(name, value) == set(XmlReplayEvent("set"), name, Number(value))
GetValueEvent(name) == set(XmlReplayEvent("get"), name, Number(0))
OpenConnectionEvent(type, name) ==
    set(set(XmlReplayEvent("openConnection"), "type", type), "name", name)
CloseConnectionEvent(type, name) ==
    set(set(XmlReplayEvent("closeConnection"), "type", type), "name", name)

\* a GetAvailableSerialPortsEvent with its m_ports assigned
GetAvailableSerialPortsEvent(ports) ==
    [XmlReplayEvent("getAvailableSerialPorts") EXCEPT !.m_ports = ports]

\* GetValueEvent::setValue / value
setValue(e, value) ==
    IF e.m_keys = <<>> THEN e ELSE set(e, e.m_keys[1], Number(value))
value(e) == IF e.m_keys = <<>> THEN "" ELSE get(e, e.m_keys[1])

\* tags registered by REGISTER_XMLREPLAYEVENT
s_eventFactories ==
    {"getAvailableSerialPorts", "TBD", "set", "get", "openConnection",
     "closeConnection", "clear", "flush", "rx", "tx"}

\* types registered by REGISTER_DEVICECONNECTION
s_factories == {"serial"}

\* the registries as the static initializers leave them; a factory is
\* named by the class whose instances it makes: an event class by its TAG,
\* a connection class by its TYPE
RegisteredEvents == [tag \in s_eventFactories |-> tag]
RegisteredConnections == [type \in s_factories |-> type]

\* registerClass that lets a later registration replace the factory
registerClass_overwrite(registry, key, factory) ==
    [registry |-> (key :> factory) @@ registry,
     ok |-> key \notin DOMAIN registry]

\* XmlReplayEvent::registerClass and DeviceConnectionManager::registerClass:
\* the registry they leave and the value they return
registerClass(registry, key, factory) ==
    IF key \in DOMAIN registry
    THEN [registry |-> registry, ok |-> FALSE]
    ELSE [registry |-> (key :> factory) @@ registry, ok |-> TRUE]

\* ------------------------------------------------------------------------
\* Wire format: an event element is its tag, its attributes in document
\* order and its text; a document is a root with child containers
\* ------------------------------------------------------------------------
\* the "time" attribute; the value of the clock is not modelled
Timestamp == "T"

Attr(n, v) == [name |-> n, value |-> v]

\* XmlReplayEvent::write: one attribute per entry of m_keys, then the payload
write(e) ==
    [i \in 1..Len(e.m_keys) |-> Attr(e.m_keys[i], e.m_values[e.m_keys[i]])]

\* the attributes of a port in the order operator<< writes them; a port
\* is its m_info, the accessors give the value of a key
PortStrings ==
    <<"portName", "systemLocation", "description", "manufacturer", "serialNumber">>

\* SerialPortInfo::SerialPortInfo(const QSerialPortInfo &): the five
\* strings, and the identifiers the port has (0 stands for has none)
SerialPortInfo(portName, description, vendorIdentifier, productIdentifier) ==
    [k \in {"portName", "systemLocation", "description", "manufacturer",
            "serialNumber"}
           \cup (IF vendorIdentifier # 0 THEN {"vendorIdentifier"} ELSE {})
           \cup (IF productIdentifier # 0 THEN {"productIdentifier"} ELSE {}) |->
        IF k = "portName" THEN portName
        ELSE IF k = "systemLocation" THEN "/dev/" \o portName
        ELSE IF k = "description" THEN description
        ELSE IF k = "vendorIdentifier" THEN vendorIdentifier
        ELSE IF k = "productIdentifier" THEN productIdentifier
        ELSE ""]

\* operator<<(QXmlStreamWriter &, const SerialPortInfo &): a <serial>
\* element, without attributes for a null port
WritePort(info) ==
    [name |-> "serial",
     attrs |->
        IF DOMAIN info = {} THEN <<>>
        ELSE [i \in 1..Len(PortStrings) |->
                 Attr(PortStrings[i],
                      IF PortStrings[i] \in DOMAIN info THEN info[PortStrings[i]]
                      ELSE "")]
             \o (IF "vendorIdentifier" \in DOMAIN info
                 THEN <<Attr("vendorIdentifier", hex(info["vendorIdentifier"]))>>
                 ELSE <<>>)
             \o (IF "productIdentifier" \in DOMAIN info
                 THEN <<Attr("productIdentifier", hex(info["productIdentifier"]))>>
                 ELSE <<>>)]

\* operator<<(QXmlStreamWriter &, const QList<T> &)
WritePorts(ports) == [i \in 1..Len(ports) |-> WritePort(ports[i])]

\* operator<<(QXmlStreamWriter &, const XmlReplayEvent &); the write() of
\* GetAvailableSerialPortsEvent writes m_ports and nothing else
Serialize(e) ==
    IF e.tag = "getAvailableSerialPorts"
    THEN [tag |-> e.tag,
          attrs |-> <<Attr("time", Timestamp)>>,
          text |-> <<>>,
          ports |-> WritePorts(e.m_ports)]
    ELSE [tag |-> e.tag,
          attrs |-> <<Attr("time", Timestamp)>> \o write(e),
          text |-> e.m_data]

\* QXmlStreamReader raises a well-formedness error on an element that
\* carries the same attribute name twice
WellFormed(el) ==
    \A i, j \in 1..Len(el.attrs) : el.attrs[i].name = el.attrs[j].name => i = j

\* operator>>(QXmlStreamReader &, SerialPortInfo &): the attributes of a
\* <serial> element, the identifiers as 16-bit numbers, an identifier that
\* is no number left out; any other element gives a null port
RECURSIVE ReadPortAttrs(_, _)
ReadPortAttrs(info, attrs) ==
    IF attrs = <<>> THEN info
    ELSE LET name == Head(attrs).name
             v == Head(attrs).value
         IN  ReadPortAttrs(
                 IF name \in {"vendorIdentifier", "productIdentifier"}
                 THEN (IF toUInt(v).ok
                       THEN (name :> (toUInt(v).val % 65536)) @@ info
                       ELSE info)
                 ELSE (name :> v) @@ info,
                 Tail(attrs))

ReadPort(child) ==
    IF child.name = "serial" THEN ReadPortAttrs(EmptyMap, child.attrs)
    ELSE EmptyMap

\* operator>>(QXmlStreamReader &, QList<T> &): one item per child element
ReadPorts(children) == [i \in 1..Len(children) |-> ReadPort(children[i])]

\* XmlReplayEvent::read: every attribute but "time" through set(), then the text
RECURSIVE readAttrs(_, _)
readAttrs(e, attrs) ==
    IF attrs = <<>> THEN e
    ELSE readAttrs(IF Head(attrs).name # "time"
                   THEN set(e, Head(attrs).name, Head(attrs).value)
                   ELSE e,
                   Tail(attrs))

\* operator>>(QXmlStreamReader &, XmlReplayEvent &) on a created instance;
\* the read() of GetAvailableSerialPortsEvent reads m_ports and nothing else
read(el) ==
    IF el.tag = "getAvailableSerialPorts"
    THEN GetAvailableSerialPortsEvent(ReadPorts(el.ports))
    ELSE LET e == readAttrs(XmlReplayEvent(el.tag), el.attrs)
         IN  IF usesData(el.tag) THEN [e EXCEPT !.m_data = el.text] ELSE e

\* ------------------------------------------------------------------------
\* XmlRecorder
\* ------------------------------------------------------------------------
\* XmlRecorder::XmlRecorder and prologue(): root and container are open
XmlRecorder == [events |-> <<>>, closed |-> FALSE]

\* a destructor that leaves container and root open
epilogue_none(rec) == rec

\* XmlRecorder::~XmlRecorder and epilogue(): container and root are closed
epilogue(rec) == [rec EXCEPT !.closed = TRUE]

\* the document a recorder has written
Document(rec) ==
    [root |-> "xmlreplay",
     children |-> <<[name |-> "events", elems |-> rec.events]>>]

\* the calls on a QXmlStreamWriter
Token(op, n, v) == [op |-> op, name |-> n, value |-> v]

\* XmlRecorder::prologue as calls on the writer
PrologueTokens ==
    <<Token("writeStartElement", "xmlreplay", ""),
      Token("writeStartElement", "events", "")>>

\* operator<<(QXmlStreamWriter &, const XmlReplayEvent &) and
\* XmlReplayEvent::write as calls on the writer, for an event without
\* child elements
Tokens(el) ==
    <<Token("writeStartElement", el.tag, "")>>
    \o [i \in 1..Len(el.attrs) |->
           Token("writeAttribute", el.attrs[i].name, el.attrs[i].value)]
    \o (IF el.text # <<>> THEN <<Token("writeCharacters", "", el.text)>> ELSE <<>>)
    \o <<Token("writeEndElement", "", "")>>

\* a QMutex that no thread holds
Unlocked == ""

\* lock() that does not wait for the holder
lock_noWait(mutex, t) == [acquired |-> TRUE, m_mutex |-> t]

\* XmlRecorder::lock called by thread t: QMutex::lock returns when no
\* other thread holds the mutex
lock(mutex, t) ==
    IF mutex = Unlocked THEN [acquired |-> TRUE, m_mutex |-> t]
    ELSE [acquired |-> FALSE, m_mutex |-> mutex]

\* XmlRecorder::unlock
unlock(mutex) == Unlocked

\* record that writes the element in front of the earlier ones
record_prepend(recs, writer, e) ==
    IF writer = NULL THEN recs
    ELSE [recs EXCEPT ![writer].events = <<Serialize(e)>> \o @]

\* record that writes nothing
record_none(recs, writer, e) == recs

\* XmlReplayEvent::record(writer): nothing when there is no recorder
record(recs, writer, e) ==
    IF writer = NULL THEN recs
    ELSE [recs EXCEPT ![writer].events = Append(@, Serialize(e))]

\* ------------------------------------------------------------------------
\* XmlReplay
\* ------------------------------------------------------------------------
\* the index with prepend in place of append
IndexAppend_lifo(ix, type, ident, n) ==
    LET ids == IF type \in DOMAIN ix THEN ix[type] ELSE EmptyMap
        q == IF ident \in DOMAIN ids THEN ids[ident] ELSE <<>>
    IN  (type :> ((ident :> (<<n>> \o q)) @@ ids)) @@ ix

\* m_eventIndex[type][id].append(n), creating the keys that are missing
IndexAppend(ix, type, ident, n) ==
    LET ids == IF type \in DOMAIN ix THEN ix[type] ELSE EmptyMap
        q == IF ident \in DOMAIN ids THEN ids[ident] ELSE <<>>
    IN  (type :> ((ident :> Append(q, n)) @@ ids)) @@ ix

\* the loop body without the link from the event before
AddEvent_noLink(r, el) ==
    LET event == read(el)
        n == Len(r.m_events) + 1
    IN  [r EXCEPT !.m_events = Append(@, event),
                  !.m_next = Append(@, NULL),
                  !.m_eventIndex = IndexAppend(@, el.tag, id(event), n)]

\* body of the loop of deserializeEvents for an element of a known class
AddEvent(r, el) ==
    LET event == read(el)
        n == Len(r.m_events) + 1
    IN  [r EXCEPT !.m_events = Append(@, event),
                  !.m_next = IF n > 1 THEN [Append(@, NULL) EXCEPT ![n - 1] = n]
                             ELSE <<NULL>>,
                  !.m_eventIndex = IndexAppend(@, el.tag, id(event), n)]

\* deserializeEvents that ends the loop at an element of no registered class
RECURSIVE deserializeEvents_stop(_, _)
deserializeEvents_stop(r, elems) ==
    IF elems = <<>> \/ r.xmlError THEN r
    ELSE IF ~WellFormed(Head(elems)) THEN [r EXCEPT !.xmlError = TRUE]
    ELSE IF Head(elems).tag \in s_eventFactories
    THEN deserializeEvents_stop(AddEvent(r, Head(elems)), Tail(elems))
    ELSE r

\* XmlReplay::deserializeEvents; an XML error ends every later
\* readNextStartElement
RECURSIVE deserializeEvents(_, _)
deserializeEvents(r, elems) ==
    IF elems = <<>> \/ r.xmlError THEN r
    ELSE IF ~WellFormed(Head(elems)) THEN [r EXCEPT !.xmlError = TRUE]
    ELSE IF Head(elems).tag \in s_eventFactories
    THEN deserializeEvents(AddEvent(r, Head(elems)), Tail(elems))
    ELSE deserializeEvents(r, Tail(elems))

RECURSIVE deserializeChildren(_, _)
deserializeChildren(r, children) ==
    IF children = <<>> \/ r.xmlError THEN r
    ELSE deserializeChildren(
             IF Head(children).name = "events"
             THEN deserializeEvents(r, Head(children).elems)
             ELSE r,
             Tail(children))

\* XmlReplay::deserialize
deserialize(xml) ==
    LET r0 == [m_events |-> <<>>, m_next |-> <<>>, m_eventIndex |-> EmptyMap,
               xmlError |-> FALSE]
    IN  IF xml.root = "xmlreplay" THEN deserializeChildren(r0, xml.children)
        ELSE r0

\* XmlReplay::XmlReplay
XmlReplay(xml) ==
    LET r == deserialize(xml)
    IN  [m_events |-> r.m_events, m_next |-> r.m_next,
         m_eventIndex |-> r.m_eventIndex]

\* the parse called id() on a set or get event without a key
CallsFirstOfEmpty(r) ==
    \E i \in 1..Len(r.m_events) :
        r.m_events[i].tag \in {"set", "get"} /\ r.m_events[i].m_keys = <<>>

\* getNextEvent that reads m_eventIndex[type][id] without the contains()
\* tests: operator[] of QHash inserts the keys that are missing
getNextEvent_insert(r, type, ident) ==
    LET ids == IF type \in DOMAIN r.m_eventIndex THEN r.m_eventIndex[type]
               ELSE EmptyMap
        events == IF ident \in DOMAIN ids THEN ids[ident] ELSE <<>>
        left == IF events # <<>> THEN Tail(events) ELSE <<>>
    IN  [event |-> IF events # <<>> THEN Head(events) ELSE NULL,
         replay |-> [r EXCEPT !.m_eventIndex =
                        (type :> ((ident :> left) @@ ids)) @@ r.m_eventIndex]]

\* getNextEvent that fills an empty queue again with the events of its key
getNextEvent_refill(r, type, ident) ==
    IF type \in DOMAIN r.m_eventIndex /\ ident \in DOMAIN r.m_eventIndex[type]
    THEN LET events == r.m_eventIndex[type][ident]
             all == SelectSeq([k \in 1..Len(r.m_events) |-> k],
                              LAMBDA k : /\ r.m_events[k].tag = type
                                         /\ id(r.m_events[k]) = ident)
         IN  IF events # <<>>
             THEN [event |-> Head(events),
                   replay |-> [r EXCEPT !.m_eventIndex[type][ident] = Tail(events)]]
             ELSE [event |-> NULL,
                   replay |-> [r EXCEPT !.m_eventIndex[type][ident] = all]]
    ELSE [event |-> NULL, replay |-> r]

\* getNextEvent without removeFirst()
getNextEvent_keep(r, type, ident) ==
    IF type \in DOMAIN r.m_eventIndex /\ ident \in DOMAIN r.m_eventIndex[type]
       /\ r.m_eventIndex[type][ident] # <<>>
    THEN [event |-> Head(r.m_eventIndex[type][ident]), replay |-> r]
    ELSE [event |-> NULL, replay |-> r]

\* XmlReplay::getNextEvent(type, id): the head of the queue, removed from
\* it, or the null pointer
getNextEvent(r, type, ident) ==
    IF type \in DOMAIN r.m_eventIndex
    THEN LET ids == r.m_eventIndex[type]
         IN  IF ident \in DOMAIN ids
             THEN LET events == ids[ident]
                  IN  IF events # <<>>
                      THEN [event |-> Head(events),
                            replay |-> [r EXCEPT !.m_eventIndex[type][ident] = Tail(events)]]
                      ELSE [event |-> NULL, replay |-> r]
             ELSE [event |-> NULL, replay |-> r]
    ELSE [event |-> NULL, replay |-> r]

\* ------------------------------------------------------------------------
\* State
\* ------------------------------------------------------------------------
VARIABLES
    m_record,       \* DeviceConnectionManager::m_record: a recorder or NULL
    m_replay,       \* DeviceConnectionManager::m_replay: a replay or NULL
    m_connections,  \* DeviceConnectionManager::m_connections: name -> connection
    m_serialPorts,  \* DeviceConnectionManager::m_serialPorts: the latest port list
    recorders,      \* the XmlRecorder objects created so far
    replays,        \* the XmlReplay objects created so far
    stream,         \* the event elements of the document given to replay()
    conns,          \* the SerialPortConnection objects
    buf,            \* the caller's read buffer
    portCalls,      \* calls made on QSerialPort and QSerialPortInfo so far
    last,           \* the latest call: its return value and outcome event
    lookups,        \* the getNextEvent calls made so far with their results
    phase,          \* "issue": the caller issues calls; "switch", "repeat":
                    \* the recorded session is replayed with the same calls
    script,         \* the calls issued so far
    pc,             \* the next call of the script to repeat
    anEvent,        \* an XmlReplayEvent object that a caller builds
    sent,           \* the bytes of the latest setData call on anEvent
    parsed,         \* what a parser made of the element anEvent was written as
    got,            \* the result of the latest getData call on anEvent
    eventRegistry,  \* XmlReplayEvent::s_factories: tag -> factory
    connectionRegistry,  \* DeviceConnectionManager::s_factories: type -> factory
    registryCall,   \* the latest registerClass or createInstance call
    document,       \* the replay text of a session that parses a whole document
    aborted,        \* the process was terminated
    threads,        \* the threads that call record() on one recorder
    m_mutex,        \* XmlRecorder::m_mutex of that recorder: its holder, if any
    m_xml,          \* the calls made on the QXmlStreamWriter of that recorder
    facades         \* the SerialPort objects of the legacy class

\* the manager, its connections and the caller of connection operations
connVars == <<m_record, m_replay, m_connections, m_serialPorts, recorders,
              replays, stream, conns, buf, portCalls, last, lookups, phase,
              script, pc, document, aborted, threads, m_mutex, m_xml, facades>>

\* the process around the manager: the text it parses, its termination,
\* the threads inside record() and the legacy SerialPort objects
processVars == <<document, aborted, threads, m_mutex, m_xml, facades>>

\* a single event in the hands of a caller
eventVars == <<anEvent, sent, parsed, got>>

\* the two registries of factories and the latest call on them
registryVars == <<eventRegistry, connectionRegistry, registryCall>>

vars == <<connVars, eventVars, registryVars>>

\* a connection object that does not exist
NoConn == [alive |-> FALSE, m_name |-> "", m_opened |-> FALSE,
           m_record |-> NULL, m_replay |-> NULL]

\* DeviceConnection::DeviceConnection: the manager's recorder and replay
\* are captured, m_opened is false
DeviceConnection(name, rec, rpl) ==
    [alive |-> TRUE, m_name |-> name, m_opened |-> FALSE,
     m_record |-> rec, m_replay |-> rpl]

NoEvent == XmlReplayEvent("")

Call(op, type, name, conn, num, bytes) ==
    [op |-> op, type |-> type, name |-> name, conn |-> conn, num |-> num,
     bytes |-> bytes]

\* the port names the caller uses in this session
CallerNames == IF phase = "manage" THEN ManagerNames ELSE Names

\* the caller either issues a new call or repeats the next call of the script
CallerScript(call) ==
    /\ \/ /\ phase \in {"issue", "ports", "record", "malformed", "transmit", "receive",
                       "facade", "dangle"}
          /\ Len(script) < MaxOps
          /\ script' = Append(script, call)
          /\ pc' = pc
          /\ phase' = phase
       \/ /\ phase = "manage"
          /\ Len(script) < MaxManagerOps
          /\ script' = Append(script, call)
          /\ pc' = pc
          /\ phase' = phase
       \/ /\ phase = "repeat"
          /\ pc <= Len(script)
          /\ script[pc] = call
          /\ pc' = pc + 1
          /\ script' = script
          /\ phase' = phase
    /\ ~aborted
    /\ UNCHANGED <<eventVars, registryVars>>

\* a call made on the manager or on a connection
Caller(call) ==
    /\ CallerScript(call)
    /\ UNCHANGED <<document, threads, m_mutex, m_xml, facades>>

\* a call of a connection operation, which leaves the port list alone
Issue(call) ==
    /\ Caller(call)
    /\ UNCHANGED m_serialPorts

\* results of a call on the live transport: the return value and error()
BoolResults == {[ok |-> b, error |-> e] : b \in BOOLEAN, e \in PortErrors}
LenResults(maxSize) ==
    {[len |-> n, error |-> e] : n \in (0 - 1)..maxSize, e \in PortErrors}

\* checkResult that looks at the return value alone
checkResult_returnOnly(r, e) ==
    IF r.ok THEN e ELSE set(e, "error", Number(r.error))

\* SerialPortConnection::checkResult(bool ok, XmlReplayEvent &)
checkResult(r, e) ==
    IF r.ok /\ r.error = NoError THEN e
    ELSE LET e1 == set(e, "error", Number(r.error))
         IN  IF r.ok THEN set(e1, "ok", Number(1)) ELSE e1

\* SerialPortConnection::checkResult(qint64 len, XmlReplayEvent &)
checkResultLen(r, e) ==
    IF r.len < 0 \/ r.error # NoError THEN set(e, "error", Number(r.error))
    ELSE e

\* SerialPortConnection::checkError
checkError(error, e) ==
    IF error # NoError THEN set(e, "error", Number(error)) ELSE e

\* no call was made on m_port
NoPort == [called |-> FALSE]

\* the lookup a connection makes in the replay it was built with
Lookup(rpl, type, ident) ==
    LET g == getNextEvent(replays[rpl], type, ident)
    IN  [made |-> TRUE, replay |-> rpl, type |-> type, ident |-> ident,
         event |-> g.event,
         events |-> replays[rpl].m_events,
         replays |-> [replays EXCEPT ![rpl] = g.replay],
         port |-> NoPort]

\* the live branch makes no lookup
NoLookup ==
    [made |-> FALSE, replay |-> NULL, type |-> "", ident |-> "",
     event |-> NULL, events |-> <<>>, replays |-> replays, port |-> NoPort]

\* the live branch calls m_port, which returns r.ok or r.len and leaves
\* r.error as m_port.error()
Transport(r) == [NoLookup EXCEPT !.port = [called |-> TRUE, result |-> r]]

\* the text of the qWarning() a call logs last, or none
NoWarning == ""
UnknownType == "Unknown device connection type:"
AlreadyOpen == "already open"
UnableToOpen == "unable to open"
NotCreatedByOpenConnection == "not created by openConnection!"
Missing == "missing"
AlreadyOpened == "already opened"

\* what every operation leaves behind: the record() call, the consumed
\* replay event, the transport calls and the value lookups to the caller
\* event.record(m_record) of a connection whose recorder the manager has
\* deleted uses a deleted object: the process is terminated, or it goes on
\* after the element was written behind the end of the document
RecordOutcomes(rec, recordIt) ==
    IF recordIt /\ rec # NULL /\ recorders[rec].closed
    THEN {TRUE, FALSE}
    ELSE {aborted}

DoneWarn(call, rec, rpl, ev, recordIt, lk, ncalls, retOk, retLen, warning) ==
    /\ recorders' = IF recordIt THEN record(recorders, rec, ev) ELSE recorders
    /\ aborted' \in RecordOutcomes(rec, recordIt)
    /\ replays' = lk.replays
    /\ stream' = stream
    /\ portCalls' = portCalls + ncalls
    /\ lookups' = IF lk.made
                  THEN Append(lookups, [replay |-> lk.replay, type |-> lk.type,
                                        ident |-> lk.ident, event |-> lk.event])
                  ELSE lookups
    /\ last' = [op |-> call.op, conn |-> call.conn, ok |-> retOk,
                len |-> retLen, event |-> ev, hasEvent |-> TRUE,
                recorded |-> recordIt /\ rec # NULL,
                replayed |-> rpl # NULL, found |-> lk.event,
                warning |-> warning, port |-> lk.port]

\* a call that logs no warning
Done(call, rec, rpl, ev, recordIt, lk, ncalls, retOk, retLen) ==
    DoneWarn(call, rec, rpl, ev, recordIt, lk, ncalls, retOk, retLen, NoWarning)

\* a call that logs a warning and returns before it builds an event
Rejected(call, warning) ==
    /\ last' = [op |-> call.op, conn |-> call.conn, ok |-> FALSE, len |-> 0,
                event |-> NoEvent, hasEvent |-> FALSE, recorded |-> FALSE,
                replayed |-> FALSE, found |-> NULL, warning |-> warning,
                port |-> NoPort]
    /\ UNCHANGED <<m_record, m_replay, m_connections, recorders, replays,
                   stream, conns, buf, portCalls, lookups, aborted>>

\* ------------------------------------------------------------------------
\* SerialPortConnection::open and close as the sets of their outcomes
\* ------------------------------------------------------------------------
\* open() that leaves the proposed event alone when the replay has none
OpenOutcomes_noError(name, rpl) ==
    LET event == OpenConnectionEvent("serial", name)
    IN  IF rpl = NULL
        THEN {[event |-> checkResult(r, event), lk |-> Transport(r), ncalls |-> 3] : r \in BoolResults}
        ELSE LET g == Lookup(rpl, "openConnection", name)
             IN  {[event |-> copyIf(event, g.events, g.event), lk |-> g,
                   ncalls |-> 0]}

\* SerialPortConnection::open past the m_opened test
OpenOutcomes(name, rpl) ==
    LET event == OpenConnectionEvent("serial", name)
    IN  IF rpl = NULL
        THEN {[event |-> checkResult(r, event), lk |-> Transport(r), ncalls |-> 3] : r \in BoolResults}
        ELSE LET g == Lookup(rpl, "openConnection", name)
             IN  {[event |-> IF g.event # NULL
                             THEN copyIf(event, g.events, g.event)
                             ELSE set(event, "error", Number(DeviceNotFoundError)),
                   lk |-> g, ncalls |-> 0]}

\* close() that closes the port in replay mode as well
CloseOutcomes_live(name, rpl) ==
    LET event == CloseConnectionEvent("serial", name)
    IN  IF rpl = NULL
        THEN {[event |-> checkError(error, event), lk |-> Transport([error |-> error]), ncalls |-> 2] : error \in PortErrors}
        ELSE LET g == Lookup(rpl, "closeConnection", name)
             IN  {[event |-> IF g.event # NULL
                             THEN copyIf(event, g.events, g.event)
                             ELSE set(event, "error", Number(ResourceError)),
                   lk |-> g, ncalls |-> 1]}

\* SerialPortConnection::close
CloseOutcomes(name, rpl) ==
    LET event == CloseConnectionEvent("serial", name)
    IN  IF rpl = NULL
        THEN {[event |-> checkError(error, event), lk |-> Transport([error |-> error]), ncalls |-> 2] : error \in PortErrors}
        ELSE LET g == Lookup(rpl, "closeConnection", name)
             IN  {[event |-> IF g.event # NULL
                             THEN copyIf(event, g.events, g.event)
                             ELSE set(event, "error", Number(ResourceError)),
                   lk |-> g, ncalls |-> 0]}

\* connectionClosed that removes the name whatever it maps to
connectionClosed_anyInstance(conn) ==
    LET name == conns[conn].m_name
    IN  IF name \in DOMAIN m_connections
        THEN [m_connections |-> [n \in DOMAIN m_connections \ {name} |->
                                    m_connections[n]],
              warning |-> NoWarning]
        ELSE [m_connections |-> m_connections, warning |-> Missing]

\* connectionClosed that leaves the map alone
connectionClosed_keep(conn) ==
    [m_connections |-> m_connections, warning |-> NoWarning]

\* DeviceConnectionManager::connectionClosed: the map it leaves and the
\* warning it logs
connectionClosed(conn) ==
    LET name == conns[conn].m_name
    IN  IF name \in DOMAIN m_connections
        THEN IF m_connections[name] = conn
             THEN [m_connections |-> [n \in DOMAIN m_connections \ {name} |->
                                         m_connections[n]],
                   warning |-> NoWarning]
             ELSE [m_connections |-> m_connections,
                   warning |-> NotCreatedByOpenConnection]
        ELSE [m_connections |-> m_connections, warning |-> Missing]

\* the tests of openConnection without the name test
Refusal_typeOnly(type, name) ==
    IF type \notin s_factories THEN UnknownType ELSE NoWarning

\* the tests of openConnection with the name test first
Refusal_nameFirst(type, name) ==
    IF name \in DOMAIN m_connections THEN AlreadyOpen
    ELSE IF type \notin s_factories THEN UnknownType
    ELSE NoWarning

\* the tests DeviceConnectionManager::openConnection makes before it
\* builds a connection: the warning of the first that fails
Refusal(type, name) ==
    IF type \notin s_factories THEN UnknownType
    ELSE IF name \in DOMAIN m_connections THEN AlreadyOpen
    ELSE NoWarning

\* ------------------------------------------------------------------------
\* Port enumeration: what the platform reports and what a replay text holds
\* ------------------------------------------------------------------------
\* a replay text with one container of event elements
StreamDocument(elems) ==
    [root |-> "xmlreplay", children |-> <<[name |-> "events", elems |-> elems]>>]

\* a USB serial adapter (vendor 0x10C4, product 0xEA60) and a port without
\* identifiers
UsbPort == SerialPortInfo("COM3", "CP210x", 4292, 60000)
PlainPort == SerialPortInfo("COM4", "", 0, 0)

\* results of QSerialPortInfo::availablePorts
AvailablePorts == {<<>>, <<UsbPort>>, <<UsbPort, PlainPort>>}

\* elements of a replay text for port enumerations: recorded lists, an
\* event of another class, and a list written by hand with an identifier
\* that is no number, an identifier in decimal and an element that is no
\* <serial>
PortStreamElements ==
    {Serialize(GetAvailableSerialPortsEvent(<<UsbPort>>)),
     Serialize(GetAvailableSerialPortsEvent(<<>>)),
     Serialize(XmlReplayEvent("flush")),
     [tag |-> "getAvailableSerialPorts",
      attrs |-> <<Attr("time", Timestamp)>>,
      text |-> <<>>,
      ports |-> <<[name |-> "serial",
                   attrs |-> <<Attr("portName", "COM4"),
                               Attr("vendorIdentifier", "zz"),
                               Attr("productIdentifier", "2")>>],
                  [name |-> "usb", attrs |-> <<Attr("portName", "COM5")>>]>>]}

PortStreams == UNION {[1..n -> PortStreamElements] : n \in 0..MaxLog}

\* ------------------------------------------------------------------------
\* Operations
\* ------------------------------------------------------------------------
\* DeviceConnectionManager::openConnection, with the factory call, the
\* connection's open() and the destruction of a connection that did not open
openConnectionFor(call, type, name) ==
    IF Refusal(type, name) # NoWarning
    THEN Rejected(call, Refusal(type, name))
    ELSE \E conn \in ConnIds :
           /\ ~conns[conn].alive
           /\ \A d \in ConnIds : d < conn => conns[d].alive
           /\ \E o \in OpenOutcomes(name, m_replay) :
                /\ DoneWarn([call EXCEPT !.conn = IF ok(o.event) THEN conn ELSE NULL],
                            m_record, m_replay, o.event, TRUE, o.lk, o.ncalls, ok(o.event), 0,
                            IF ok(o.event) THEN NoWarning ELSE UnableToOpen)
                /\ conns' = [conns EXCEPT ![conn] =
                       IF ok(o.event)
                       THEN [DeviceConnection(name, m_record, m_replay)
                                 EXCEPT !.m_opened = TRUE]
                       ELSE NoConn]
                /\ m_connections' = IF ok(o.event)
                                    THEN (name :> conn) @@ m_connections
                                    ELSE m_connections
                /\ UNCHANGED <<m_record, m_replay, buf>>

\* a caller calls openConnection on the manager
openConnection ==
    \E type \in ConnTypes, name \in CallerNames :
        LET call == Call("openConnection", type, name, NULL, 0, <<>>)
        IN  /\ Issue(call)
            /\ openConnectionFor(call, type, name)

\* SerialPortConnection::createInstance called by a caller, not by the
\* manager: the connection exists and is not opened
createInstance ==
    \E name \in CallerNames, conn \in ConnIds :
        LET call == Call("createInstance", "serial", name, conn, 0, <<>>)
        IN  /\ Issue(call)
            /\ ~conns[conn].alive
            /\ \A d \in ConnIds : d < conn => conns[d].alive
            /\ conns' = [conns EXCEPT ![conn] = DeviceConnection(name, m_record, m_replay)]
            /\ last' = [op |-> call.op, conn |-> conn, ok |-> TRUE, len |-> 0,
                        event |-> NoEvent, hasEvent |-> FALSE, recorded |-> FALSE,
                        replayed |-> FALSE, found |-> NULL, warning |-> NoWarning, port |-> NoPort]
            /\ UNCHANGED <<m_record, m_replay, m_connections, recorders, replays,
                           stream, buf, portCalls, lookups, aborted>>

\* open() without the m_opened test
open_again ==
    \E conn \in ConnIds :
        LET call == Call("open", "", "", conn, 0, <<>>)
            c == conns[conn]
        IN  /\ c.alive
            /\ Issue(call)
            /\ \E o \in OpenOutcomes(c.m_name, c.m_replay) :
                  /\ Done(call, c.m_record, c.m_replay, o.event, TRUE,
                          o.lk, o.ncalls, ok(o.event), 0)
                  /\ conns' = [conns EXCEPT ![conn].m_opened = ok(o.event)]
                  /\ UNCHANGED <<m_record, m_replay, m_connections, buf>>

\* SerialPortConnection::open called on an existing connection
open ==
    \E conn \in ConnIds :
        LET call == Call("open", "", "", conn, 0, <<>>)
            c == conns[conn]
        IN  /\ c.alive
            /\ Issue(call)
            /\ IF c.m_opened
               THEN Rejected(call, AlreadyOpened)
               ELSE \E o \in OpenOutcomes(c.m_name, c.m_replay) :
                      /\ Done(call, c.m_record, c.m_replay, o.event, TRUE,
                              o.lk, o.ncalls, ok(o.event), 0)
                      /\ conns' = [conns EXCEPT ![conn].m_opened = ok(o.event)]
                      /\ UNCHANGED <<m_record, m_replay, m_connections, buf>>

\* the common body of setBaudRate, setDataBits, setParity, setStopBits,
\* setFlowControl, clear and flush: event is the event built from the arguments
BoolOp(call, event) ==
    LET c == conns[call.conn]
    IN  /\ Issue(call)
        /\ IF c.m_replay = NULL
           THEN \E r \in BoolResults :
                  LET ev == checkResult(r, event)
                  IN  Done(call, c.m_record, NULL, ev, TRUE, Transport(r), 2,
                           ok(ev), 0)
           ELSE LET g == Lookup(c.m_replay, event.tag, id(event))
                    ev == copyIf(event, g.events, g.event)
                IN  Done(call, c.m_record, c.m_replay, ev, TRUE, g, 0, ok(ev), 0)
        /\ UNCHANGED <<m_record, m_replay, m_connections, conns, buf>>

setBaudRate ==
    \E conn \in ConnIds, baudRate \in BaudRates, directions \in Directions :
        /\ conns[conn].alive
        /\ BoolOp(Call("setBaudRate", "", "", conn, baudRate, <<>>),
                  set(SetValueEvent("baudRate", baudRate), "directions",
                      Number(directions)))

setDataBits ==
    \E conn \in ConnIds, dataBits \in DataBits :
        /\ conns[conn].alive
        /\ BoolOp(Call("setDataBits", "", "", conn, dataBits, <<>>),
                  SetValueEvent("setDataBits", dataBits))

setParity ==
    \E conn \in ConnIds, parity \in Parities :
        /\ conns[conn].alive
        /\ BoolOp(Call("setParity", "", "", conn, parity, <<>>),
                  SetValueEvent("setParity", parity))

setStopBits ==
    \E conn \in ConnIds, stopBits \in StopBits :
        /\ conns[conn].alive
        /\ BoolOp(Call("setStopBits", "", "", conn, stopBits, <<>>),
                  SetValueEvent("setStopBits", stopBits))

setFlowControl ==
    \E conn \in ConnIds, flowControl \in FlowControls :
        /\ conns[conn].alive
        /\ BoolOp(Call("setFlowControl", "", "", conn, flowControl, <<>>),
                  SetValueEvent("setFlowControl", flowControl))

clear ==
    \E conn \in ConnIds, directions \in Directions :
        /\ conns[conn].alive
        /\ BoolOp(Call("clear", "", "", conn, directions, <<>>),
                  set(XmlReplayEvent("clear"), "directions", Number(directions)))

flush ==
    \E conn \in ConnIds :
        /\ conns[conn].alive
        /\ BoolOp(Call("flush", "", "", conn, 0, <<>>), XmlReplayEvent("flush"))

\* SerialPortConnection::bytesAvailable
bytesAvailable ==
    \E conn \in ConnIds :
        LET call == Call("bytesAvailable", "", "", conn, 0, <<>>)
            c == conns[conn]
            event == GetValueEvent("bytesAvailable")
        IN  /\ c.alive
            /\ Issue(call)
            /\ IF c.m_replay = NULL
               THEN \E result \in AvailResults, error \in PortErrors :
                      LET ev == checkResultLen([len |-> result, error |-> error],
                                               setValue(event, result))
                      IN  Done(call, c.m_record, NULL, ev, TRUE,
                               Transport([len |-> result, error |-> error]), 2,
                               ok(ev), result)
               ELSE LET g == Lookup(c.m_replay, "get", id(event))
                        ev == copyIf(event, g.events, g.event)
                    IN  Done(call, c.m_record, c.m_replay, ev, TRUE, g, 0, ok(ev), toLong(value(ev)).val)
            /\ UNCHANGED <<m_record, m_replay, m_connections, conns, buf>>

\* the recorded len cut down to the size of the caller's buffer
replayLen_fits(ev) ==
    LET n == toLong(get(ev, "len"))
    IN  IF ~n.ok THEN 0 - 1 ELSE IF n.val > ReadSize THEN ReadSize ELSE n.val

\* the len a replayed read or write returns: get("len").toLong(&ok), or -1
replayLen(ev) ==
    LET n == toLong(get(ev, "len")) IN IF n.ok THEN n.val ELSE 0 - 1

\* the replay branch of read and write without the fallback outcome
replayTransfer_noError(event, g) == copyIf(event, g.events, g.event)

\* what the replay branch of read and write makes of the lookup
replayTransfer(event, g) ==
    LET ev == copyIf(event, g.events, g.event)
    IN  IF g.event = NULL
        THEN set(set(ev, "len", Number(0 - 1)), "error", Number(ReadError))
        ELSE ev

\* the maxSize a caller gives to read(): the size of its buffer, or in a
\* session about received data a smaller number as well
ReadSizes == IF phase = "receive" THEN {0, 1, ReadSize} ELSE {ReadSize}

\* SerialPortConnection::read
read_ ==
    \E conn \in ConnIds, maxSize \in ReadSizes :
        LET call == Call("read", "", "", conn, maxSize, <<>>)
            c == conns[conn]
            event == XmlReplayEvent("rx")
        IN  /\ c.alive
            /\ Issue(call)
            /\ IF c.m_replay = NULL
               THEN \E r \in LenResults(maxSize), data \in RxData :
                      LET len == r.len
                          e1 == IF len > 0 THEN setData(event, SubSeq(data, 1, len))
                                ELSE event
                          e2 == set(e1, "len", Number(len))
                          e3 == IF len # maxSize THEN set(e2, "req", Number(maxSize))
                                ELSE e2
                          ev == checkResultLen(r, e3)
                      IN  /\ Done(call, c.m_record, NULL, ev, FALSE, Transport(r), 2, ok(ev), len)
                          /\ buf' = [i \in 1..Len(buf) |->
                                        IF i <= len THEN data[i] ELSE buf[i]]
               ELSE LET g == Lookup(c.m_replay, "rx", id(event))
                        ev == replayTransfer(event, g)
                    IN  /\ Done(call, c.m_record, c.m_replay, ev, FALSE, g, 0, ok(ev), replayLen(ev))
                        /\ buf' = buf
            /\ UNCHANGED <<m_record, m_replay, m_connections, conns>>

\* SerialPortConnection::write
write_ ==
    \E conn \in ConnIds, bytes \in Payloads :
        LET call == Call("write", "", "", conn, Len(bytes), bytes)
            c == conns[conn]
            maxSize == Len(bytes)
            event == setData(XmlReplayEvent("tx"), bytes)
        IN  /\ c.alive
            /\ Issue(call)
            /\ IF c.m_replay = NULL
               THEN \E r \in LenResults(maxSize) :
                      LET e2 == set(event, "len", Number(r.len))
                          e3 == IF r.len # maxSize
                                THEN set(e2, "req", Number(maxSize)) ELSE e2
                          ev == checkResultLen(r, e3)
                      IN  Done(call, c.m_record, NULL, ev, TRUE, Transport(r), 2, ok(ev), r.len)
               ELSE LET g == Lookup(c.m_replay, "tx", id(event))
                        ev == replayTransfer(event, g)
                    IN  Done(call, c.m_record, c.m_replay, ev, TRUE, g, 0, ok(ev), replayLen(ev))
            /\ UNCHANGED <<m_record, m_replay, m_connections, conns, buf>>

\* SerialPortConnection::close; m_opened is left as it was
close ==
    \E conn \in ConnIds :
        LET call == Call("close", "", "", conn, 0, <<>>)
            c == conns[conn]
        IN  /\ c.alive
            /\ Issue(call)
            /\ \E o \in CloseOutcomes(c.m_name, c.m_replay) :
                 Done(call, c.m_record, c.m_replay, o.event, TRUE, o.lk, o.ncalls, TRUE, 0)
            /\ UNCHANGED <<m_record, m_replay, m_connections, conns, buf>>

\* delete of a connection: SerialPortConnection::~SerialPortConnection,
\* which closes an opened connection and tells the manager
destroyFor(call, conn) ==
    LET c == conns[conn]
    IN  /\ IF c.m_opened
           THEN /\ \E o \in CloseOutcomes(c.m_name, c.m_replay) :
                     DoneWarn(call, c.m_record, c.m_replay, o.event, TRUE,
                              o.lk, o.ncalls, TRUE, 0,
                              connectionClosed(conn).warning)
                /\ m_connections' = connectionClosed(conn).m_connections
           ELSE /\ last' = [op |-> call.op, conn |-> conn, ok |-> TRUE,
                            len |-> 0, event |-> NoEvent, hasEvent |-> FALSE,
                            recorded |-> FALSE, replayed |-> FALSE,
                            found |-> NULL, warning |-> NoWarning, port |-> NoPort]
                /\ UNCHANGED <<m_connections, recorders, replays, stream,
                               portCalls, lookups, aborted>>
        /\ conns' = [conns EXCEPT ![conn] = NoConn]
        /\ UNCHANGED <<m_record, m_replay, buf>>

\* a caller deletes a connection
destroy ==
    \E conn \in ConnIds :
        LET call == Call("delete", "", "", conn, 0, <<>>)
        IN  /\ conns[conn].alive
            /\ Issue(call)
            /\ destroyFor(call, conn)

\* the port list of the replay branch without the cached list
ReplayedPorts_noCache(g, cached) ==
    IF g.event # NULL THEN g.events[g.event].m_ports ELSE <<>>

\* the replay branch of getAvailableSerialPorts: the ports of the event
\* found, or the list of the latest call
ReplayedPorts(g, cached) ==
    IF g.event # NULL THEN g.events[g.event].m_ports ELSE cached

\* DeviceConnectionManager::getAvailableSerialPorts
getAvailableSerialPorts ==
    LET call == Call("getAvailableSerialPorts", "", "", NULL, 0, <<>>)
    IN  /\ Caller(call)
        /\ IF m_replay = NULL
           THEN \E ports \in AvailablePorts :
                  LET ev == GetAvailableSerialPortsEvent(ports)
                  IN  /\ m_serialPorts' = ev.m_ports
                      /\ Done(call, m_record, NULL, ev, TRUE, NoLookup, 1, TRUE,
                              Len(ev.m_ports))
           ELSE LET g == Lookup(m_replay, "getAvailableSerialPorts", "")
                    ev == GetAvailableSerialPortsEvent(ReplayedPorts(g, m_serialPorts))
                IN  /\ m_serialPorts' = ev.m_ports
                    /\ Done(call, m_record, m_replay, ev, TRUE, g, 0, TRUE,
                            Len(ev.m_ports))
        /\ UNCHANGED <<m_record, m_replay, m_connections, conns, buf>>

\* DeviceConnectionManager::record(QString &): the recorder in use is
\* finalized and deleted, a new one starts; it is called when no
\* connection exists, or at any time in a session about the recorders
\* of open connections
DeviceConnectionManager_record ==
    /\ \/ /\ phase = "issue"
          /\ m_replay = NULL
          /\ script # <<>>
          /\ \A conn \in ConnIds : ~conns[conn].alive
       \/ /\ phase = "record"
          /\ Len(recorders) < MaxSinks
          /\ \A conn \in ConnIds : ~conns[conn].alive
       \/ /\ phase = "dangle"
          /\ Len(recorders) < MaxSinks
          /\ ~aborted
    /\ recorders' = Append(IF m_record # NULL
                           THEN [recorders EXCEPT ![m_record] = epilogue(@)]
                           ELSE recorders,
                           XmlRecorder)
    /\ m_record' = Len(recorders) + 1
    /\ phase' = IF phase = "issue" THEN "switch" ELSE phase
    /\ UNCHANGED <<m_replay, m_connections, m_serialPorts, replays, stream,
                   conns, buf, portCalls, last, lookups, script, pc>>
    /\ UNCHANGED processVars
    /\ UNCHANGED <<eventVars, registryVars>>

\* the sinks a caller gives to record(QFile *): none, or a file
Sinks == {NULL, 1}

\* DeviceConnectionManager::record(QFile *): the recorder in use is
\* finalized and deleted; a new one starts unless the sink is null; no
\* connection exists when it is called
DeviceConnectionManager_recordFile ==
    \E sink \in Sinks :
        LET finalized == IF m_record # NULL
                         THEN [recorders EXCEPT ![m_record] = epilogue(@)]
                         ELSE recorders
        IN  /\ phase = "record"
            /\ sink # NULL => Len(recorders) < MaxSinks
            /\ \A conn \in ConnIds : ~conns[conn].alive
            /\ recorders' = IF sink # NULL THEN Append(finalized, XmlRecorder)
                            ELSE finalized
            /\ m_record' = IF sink # NULL THEN Len(recorders) + 1 ELSE NULL
            /\ UNCHANGED <<m_replay, m_connections, m_serialPorts, replays, stream,
                           conns, buf, portCalls, last, lookups, phase, script, pc>>
            /\ UNCHANGED processVars
            /\ UNCHANGED <<eventVars, registryVars>>

\* elements of a replay text that was damaged or written by hand: rx and
\* tx without len and with a len that is no number, an rx without
\* timestamp, a get whose value is no number, a set and a get without any
\* attribute but the timestamp
MalformedElements ==
    {[tag |-> "rx", attrs |-> <<Attr("time", Timestamp)>>,
      text |-> setData(XmlReplayEvent("rx"), <<10, 255>>).m_data],
     [tag |-> "rx", attrs |-> <<Attr("time", Timestamp), Attr("len", "two")>>,
      text |-> setData(XmlReplayEvent("rx"), <<10, 255>>).m_data],
     [tag |-> "rx", attrs |-> <<Attr("len", "2")>>,
      text |-> setData(XmlReplayEvent("rx"), <<10, 255>>).m_data],
     [tag |-> "tx", attrs |-> <<Attr("time", Timestamp)>>,
      text |-> setData(XmlReplayEvent("tx"), <<10, 255>>).m_data],
     [tag |-> "tx", attrs |-> <<Attr("time", Timestamp), Attr("len", "two")>>,
      text |-> setData(XmlReplayEvent("tx"), <<10>>).m_data],
     [tag |-> "get", attrs |-> <<Attr("time", Timestamp),
                                Attr("bytesAvailable", "many")>>,
      text |-> <<>>],
     Serialize(XmlReplayEvent("set")),
     Serialize(XmlReplayEvent("get"))}

MalformedStreams == UNION {[1..n -> MalformedElements] : n \in 0..MaxLog}

\* the texts and files a caller gives to replay() between record()
\* calls: no event, a recorded port enumeration, or a recorded open
ReplayFiles ==
    {<<>>,
     <<Serialize(GetAvailableSerialPortsEvent(<<UsbPort>>))>>,
     <<Serialize(OpenConnectionEvent("serial", "COM3"))>>}

\* DeviceConnectionManager::replay(const QString &) with the text the
\* first recorder wrote, in a session of port enumerations with any text,
\* or with the document of a parse session; no connection exists when it
\* is called
DeviceConnectionManager_replay ==
    /\ ~aborted
    /\ \/ /\ phase = "switch"
          /\ replays' = Append(replays, XmlReplay(Document(recorders[1])))
          /\ stream' = recorders[1].events
          /\ phase' = "repeat"
          /\ pc' = 1
          /\ aborted' = aborted
       \/ /\ phase = "ports"
          /\ m_replay = NULL
          /\ \E elems \in PortStreams :
               /\ replays' = Append(replays, XmlReplay(StreamDocument(elems)))
               /\ stream' = elems
          /\ phase' = phase
          /\ pc' = pc
          /\ aborted' = aborted
       \/ /\ phase = "parse"
          /\ m_replay = NULL
          /\ replays' = Append(replays, XmlReplay(document))
          /\ stream' = stream
          /\ phase' = phase
          /\ pc' = pc
          /\ aborted' = aborted
       \/ /\ phase = "record"
          /\ Len(replays) < MaxTexts
          /\ \A conn \in ConnIds : ~conns[conn].alive
          /\ \E elems \in ReplayFiles :
               /\ replays' = Append(replays, XmlReplay(StreamDocument(elems)))
               /\ stream' = elems
          /\ phase' = phase
          /\ pc' = pc
          /\ aborted' = aborted
       \/ /\ phase = "malformed"
          /\ m_replay = NULL
          /\ \A conn \in ConnIds : ~conns[conn].alive
          /\ \E elems \in MalformedStreams, outcome \in FirstOfEmptyOutcomes :
               LET r == XmlReplay(StreamDocument(elems))
               IN  /\ aborted' = (CallsFirstOfEmpty(r) /\ outcome = "terminated")
                   /\ replays' = IF aborted' THEN replays ELSE Append(replays, r)
                   /\ stream' = elems
          /\ phase' = phase
          /\ pc' = pc
    /\ m_replay' = IF aborted' THEN m_replay ELSE Len(replays) + 1
    /\ UNCHANGED <<m_record, m_connections, m_serialPorts, recorders, conns, buf,
                   portCalls, last, lookups, script>>
    /\ UNCHANGED <<document, threads, m_mutex, m_xml, facades>>
    /\ UNCHANGED <<eventVars, registryVars>>

\* DeviceConnectionManager::replay(QFile *): the replay in use is deleted;
\* a new one is parsed from the file unless the file is null; no
\* connection exists when it is called
DeviceConnectionManager_replayFile ==
    /\ phase = "record"
    /\ \A conn \in ConnIds : ~conns[conn].alive
    /\ \/ /\ Len(replays) < MaxTexts
          /\ \E elems \in ReplayFiles :
               /\ replays' = Append(replays, XmlReplay(StreamDocument(elems)))
               /\ stream' = elems
          /\ m_replay' = Len(replays) + 1
       \/ /\ m_replay' = NULL
          /\ UNCHANGED <<replays, stream>>
    /\ UNCHANGED <<m_record, m_connections, m_serialPorts, recorders, conns, buf,
                   portCalls, last, lookups, phase, script, pc>>
    /\ UNCHANGED processVars
    /\ UNCHANGED <<eventVars, registryVars>>

Operation ==
    \/ openConnection
    \/ open
    \/ setBaudRate
    \/ setDataBits
    \/ setParity
    \/ setStopBits
    \/ setFlowControl
    \/ clear
    \/ flush
    \/ bytesAvailable
    \/ read_
    \/ write_
    \/ close
    \/ destroy

\* ------------------------------------------------------------------------
\* Replay streams that are not the output of a session of this model
\* ------------------------------------------------------------------------
StreamElements ==
    {Serialize(OpenConnectionEvent("serial", "COM3")),
     Serialize(set(OpenConnectionEvent("serial", "COM3"), "error",
                   Number(DeviceNotFoundError))),
     Serialize(CloseConnectionEvent("serial", "COM3")),
     Serialize(set(SetValueEvent("baudRate", 1200), "directions", Number(1))),
     Serialize(set(XmlReplayEvent("get"), "bytesAvailable", Number(2))),
     Serialize(XmlReplayEvent("flush")),
     Serialize(set(setData(XmlReplayEvent("rx"), <<10, 255>>), "len", Number(2))),
     Serialize(set(setData(XmlReplayEvent("tx"), <<10, 255>>), "len", Number(2))),
     Serialize(set(set(setData(XmlReplayEvent("tx"), <<10, 255>>),
                       "len", Number(1)), "req", Number(2))),
     [tag |-> "readyRead", attrs |-> <<Attr("time", Timestamp)>>, text |-> <<>>]}

Streams == UNION {[1..n -> StreamElements] : n \in 0..MaxLog}

NoRegistryCall ==
    [op |-> "", registry |-> "", key |-> "", factory |-> "", ok |-> FALSE,
     event |-> NoEvent]

\* no event is being built and nothing was asked of one
NoBytes == [made |-> FALSE, bytes |-> <<>>]
NoParse == [made |-> FALSE, source |-> NoEvent, events |-> <<>>]

EventIdle ==
    /\ anEvent = NoEvent
    /\ sent = NoBytes
    /\ parsed = NoParse
    /\ got = NoBytes

\* the registries after static initialization, no call made on them since
StaticsRegistered ==
    /\ eventRegistry = RegisteredEvents
    /\ connectionRegistry = RegisteredConnections
    /\ registryCall = NoRegistryCall

\* the threads of the process; none of them is inside record()
Threads == {"operation", "notification"}
NoThreads ==
    [t \in Threads |-> [pc |-> "idle", event |-> NoEvent, todo |-> <<>>, calls |-> 0]]

\* no text was chosen for replay()
NoDocument == [root |-> "", children |-> <<>>]

\* SerialPort::SerialPort: m_conn is the null pointer
SerialPort(name) == [alive |-> TRUE, m_conn |-> NULL, m_portName |-> name]

FacadeIds == 1..MaxFacades

\* no SerialPort object exists
NoFacades ==
    [f \in FacadeIds |-> [alive |-> FALSE, m_conn |-> NULL, m_portName |-> ""]]

\* the process runs, no document is chosen and no thread records
ProcessIdle ==
    /\ document = NoDocument
    /\ aborted = FALSE
    /\ threads = NoThreads
    /\ m_mutex = Unlocked
    /\ m_xml = <<>>
    /\ facades = NoFacades

NoCall == [op |-> "", conn |-> NULL, ok |-> FALSE, len |-> 0, event |-> NoEvent,
           hasEvent |-> FALSE, recorded |-> FALSE, replayed |-> FALSE,
           found |-> NULL, warning |-> NoWarning, port |-> NoPort]

InitCommon ==
    /\ EventIdle
    /\ StaticsRegistered
    /\ m_serialPorts = <<>>
    /\ ProcessIdle
    /\ m_record = 1
    /\ recorders = <<XmlRecorder>>
    /\ m_connections = EmptyMap
    /\ conns = [conn \in ConnIds |-> NoConn]
    /\ buf = InitBuf
    /\ portCalls = 0
    /\ last = NoCall
    /\ lookups = <<>>
    /\ phase = "issue"
    /\ script = <<>>
    /\ pc = 1

\* a replay session: record(string) and replay(stream) were called on the
\* manager
Init ==
    /\ InitCommon
    /\ \E elems \in Streams :
         /\ stream = elems
         /\ replays = <<XmlReplay(StreamDocument(elems))>>
    /\ m_replay = 1

Next == Operation

Spec == Init /\ [][Next]_vars

\* a live session that is recorded and then replayed with the same calls
InitRoundTrip ==
    /\ InitCommon
    /\ replays = <<>>
    /\ stream = <<>>
    /\ m_replay = NULL

NextRoundTrip ==
    \/ Operation
    \/ DeviceConnectionManager_record
    \/ DeviceConnectionManager_replay

SpecRoundTrip == InitRoundTrip /\ [][NextRoundTrip]_vars

\* ------------------------------------------------------------------------
\* A session about the open-connections map: connections are opened
\* through the manager or built directly through the factory, and deleted,
\* live or against a replay
\* ------------------------------------------------------------------------
ManagerStreamElements ==
    {Serialize(OpenConnectionEvent("serial", "COM3")),
     Serialize(OpenConnectionEvent("serial", "COM4")),
     Serialize(set(OpenConnectionEvent("serial", "COM3"), "error",
                   Number(DeviceNotFoundError)))}

ManagerStreams == UNION {[1..n -> ManagerStreamElements] : n \in 0..MaxLog}

InitManager ==
    /\ EventIdle
    /\ StaticsRegistered
    /\ m_serialPorts = <<>>
    /\ ProcessIdle
    /\ m_record = 1
    /\ recorders = <<XmlRecorder>>
    /\ m_connections = EmptyMap
    /\ conns = [conn \in ConnIds |-> NoConn]
    /\ buf = InitBuf
    /\ portCalls = 0
    /\ last = NoCall
    /\ lookups = <<>>
    /\ phase = "manage"
    /\ script = <<>>
    /\ pc = 1
    /\ \/ /\ m_replay = NULL
          /\ replays = <<>>
          /\ stream = <<>>
       \/ /\ m_replay = 1
          /\ \E elems \in ManagerStreams :
               /\ stream = elems
               /\ replays = <<XmlReplay(StreamDocument(elems))>>

NextManager ==
    \/ openConnection
    \/ createInstance
    \/ open
    \/ destroy

SpecManager == InitManager /\ [][NextManager]_vars

\* ------------------------------------------------------------------------
\* A session of port enumerations: live calls, then replay() with some
\* text and further calls
\* ------------------------------------------------------------------------
InitPorts ==
    /\ EventIdle
    /\ StaticsRegistered
    /\ m_serialPorts = <<>>
    /\ ProcessIdle
    /\ m_record = 1
    /\ recorders = <<XmlRecorder>>
    /\ m_replay = NULL
    /\ replays = <<>>
    /\ stream = <<>>
    /\ m_connections = EmptyMap
    /\ conns = [conn \in ConnIds |-> NoConn]
    /\ buf = InitBuf
    /\ portCalls = 0
    /\ last = NoCall
    /\ lookups = <<>>
    /\ phase = "ports"
    /\ script = <<>>
    /\ pc = 1

NextPorts ==
    \/ getAvailableSerialPorts
    \/ DeviceConnectionManager_replay

SpecPorts == InitPorts /\ [][NextPorts]_vars

\* ------------------------------------------------------------------------
\* A single event: built by its constructor, set(), setValue() and
\* setData(), then written to a stream and parsed back, or asked for its
\* payload bytes
\* ------------------------------------------------------------------------
\* attribute names and values a caller gives to set()
AttrNames == {"len", "error"}
AttrValues == {"0", "2"}
\* numbers a caller gives to setValue()
GetValues == {0, 2}
\* byte values of a payload: 0x00, one that needs the pad digit, 0xFF
ByteValues == {0, 10, 255}
ByteSeqs == UNION {[1..n -> ByteValues] : n \in 0..MaxBytes}

\* the events the constructors of the registered classes make
ConstructedEvents ==
    {XmlReplayEvent(tag) : tag \in s_eventFactories}
    \cup {SetValueEvent("baudRate", 9600), GetValueEvent("bytesAvailable"),
          OpenConnectionEvent("serial", "COM3"),
          CloseConnectionEvent("serial", "COM3")}

\* the event is still being built: nothing was asked of it yet
Building == anEvent # NoEvent /\ ~parsed.made /\ ~got.made

\* XmlReplayEvent::set(name, value) called on the event
XmlReplayEvent_set ==
    \E name \in AttrNames, v \in AttrValues :
        /\ Building
        /\ Len(anEvent.m_keys) < MaxKeys
        /\ anEvent' = set(anEvent, name, v)
        /\ UNCHANGED <<sent, parsed, got>>
        /\ UNCHANGED <<connVars, registryVars>>

\* GetValueEvent::setValue called on a get event
GetValueEvent_setValue ==
    \E v \in GetValues :
        /\ Building
        /\ anEvent.tag = "get"
        /\ Len(anEvent.m_keys) < MaxKeys
        /\ anEvent' = setValue(anEvent, v)
        /\ UNCHANGED <<sent, parsed, got>>
        /\ UNCHANGED <<connVars, registryVars>>

\* XmlReplayEvent::setData called on an event of a class that uses data
XmlReplayEvent_setData ==
    \E bytes \in ByteSeqs :
        /\ Building
        /\ usesData(anEvent.tag)
        /\ ~sent.made
        /\ anEvent' = setData(anEvent, bytes)
        /\ sent' = [made |-> TRUE, bytes |-> bytes]
        /\ UNCHANGED <<parsed, got>>
        /\ UNCHANGED <<connVars, registryVars>>

\* XmlReplayEvent::getData called on an event of a class that uses data
XmlReplayEvent_getData ==
    /\ anEvent # NoEvent
    /\ usesData(anEvent.tag)
    /\ ~got.made
    /\ got' = [made |-> TRUE, bytes |-> getData(anEvent)]
    /\ UNCHANGED <<anEvent, sent, parsed>>
    /\ UNCHANGED <<connVars, registryVars>>

\* the event is written with operator<< into a document of its own, and
\* the document is parsed: createInstance of the tag and operator>> for
\* every element the reader delivers
WriteAndParse ==
    /\ anEvent # NoEvent
    /\ ~parsed.made
    /\ parsed' = [made |-> TRUE, source |-> anEvent,
                  events |-> XmlReplay(StreamDocument(<<Serialize(anEvent)>>)).m_events]
    /\ UNCHANGED <<anEvent, sent, got>>
    /\ UNCHANGED <<connVars, registryVars>>

\* DeviceConnectionManager::DeviceConnectionManager: no recorder, no
\* replay, no connection, and no caller of connection operations
ManagerIdle ==
    /\ m_record = NULL
    /\ m_replay = NULL
    /\ recorders = <<>>
    /\ replays = <<>>
    /\ stream = <<>>
    /\ m_connections = EmptyMap
    /\ m_serialPorts = <<>>
    /\ ProcessIdle
    /\ conns = [conn \in ConnIds |-> NoConn]
    /\ buf = InitBuf
    /\ portCalls = 0
    /\ last = NoCall
    /\ lookups = <<>>
    /\ phase = "idle"
    /\ script = <<>>
    /\ pc = 1

InitEvent ==
    /\ anEvent \in ConstructedEvents
    /\ sent = NoBytes
    /\ parsed = NoParse
    /\ got = NoBytes
    /\ StaticsRegistered
    /\ ManagerIdle

NextEvent ==
    \/ XmlReplayEvent_set
    \/ GetValueEvent_setValue
    \/ XmlReplayEvent_setData
    \/ XmlReplayEvent_getData
    \/ WriteAndParse

SpecEvent == InitEvent /\ [][NextEvent]_vars

\* ------------------------------------------------------------------------
\* The registries of factories during static initialization: classes
\* register themselves in any order, events are created by tag
\* ------------------------------------------------------------------------
\* tags and event classes, types and connection classes that take part
RegistryTags == {"set", "get", "rx"}
EventClasses == {"set", "get"}
RegistryTypes == {"serial", "bluetooth"}
ConnectionClasses == {"serial", "bluetooth"}

\* XmlReplayEvent::registerClass(tag, factory)
XmlReplayEvent_registerClass ==
    \E tag \in RegistryTags, factory \in EventClasses :
        LET r == registerClass(eventRegistry, tag, factory)
        IN  /\ eventRegistry' = r.registry
            /\ registryCall' = [op |-> "registerClass", registry |-> "event",
                                key |-> tag, factory |-> factory, ok |-> r.ok,
                                event |-> NoEvent]
            /\ UNCHANGED connectionRegistry
            /\ UNCHANGED <<connVars, eventVars>>

\* DeviceConnectionManager::registerClass(type, factory)
DeviceConnectionManager_registerClass ==
    \E type \in RegistryTypes, factory \in ConnectionClasses :
        LET r == registerClass(connectionRegistry, type, factory)
        IN  /\ connectionRegistry' = r.registry
            /\ registryCall' = [op |-> "registerClass", registry |-> "connection",
                                key |-> type, factory |-> factory, ok |-> r.ok,
                                event |-> NoEvent]
            /\ UNCHANGED eventRegistry
            /\ UNCHANGED <<connVars, eventVars>>

\* XmlReplayEvent::createInstance(tag): s_factories.value(tag) is the null
\* factory for a tag that is not registered and inserts nothing
XmlReplayEvent_createInstance ==
    \E tag \in RegistryTags :
        /\ registryCall' =
              [op |-> "createInstance", registry |-> "event", key |-> tag,
               factory |-> "", ok |-> tag \in DOMAIN eventRegistry,
               event |-> IF tag \in DOMAIN eventRegistry
                         THEN XmlReplayEvent(eventRegistry[tag])
                         ELSE NoEvent]
        /\ UNCHANGED <<eventRegistry, connectionRegistry>>
        /\ UNCHANGED <<connVars, eventVars>>

InitRegistry ==
    /\ eventRegistry = EmptyMap
    /\ connectionRegistry = EmptyMap
    /\ registryCall = NoRegistryCall
    /\ EventIdle
    /\ ManagerIdle

NextRegistry ==
    \/ XmlReplayEvent_registerClass
    \/ DeviceConnectionManager_registerClass
    \/ XmlReplayEvent_createInstance

SpecRegistry == InitRegistry /\ [][NextRegistry]_vars

\* ------------------------------------------------------------------------
\* A parse session: replay() is given a document with one to three
\* top-level elements, among them elements that are no event container and
\* event elements of no registered class
\* ------------------------------------------------------------------------
ParseElements ==
    {Serialize(OpenConnectionEvent("serial", "COM3")),
     Serialize(XmlReplayEvent("flush")),
     Serialize(set(setData(XmlReplayEvent("tx"), <<10, 255>>), "len", Number(2))),
     [tag |-> "readyRead", attrs |-> <<Attr("time", Timestamp)>>, text |-> <<>>]}

ParseStreams == UNION {[1..n -> ParseElements] : n \in 0..MaxLog}

\* top-level elements: event containers, and a <connections> element with
\* and without an event element inside
ParseContainers ==
    {[name |-> "events", elems |-> elems] : elems \in ParseStreams}
    \cup {[name |-> "connections", elems |-> <<>>],
          [name |-> "connections", elems |-> <<Serialize(XmlReplayEvent("flush"))>>]}

ParseDocuments ==
    {[root |-> "xmlreplay", children |-> <<a>>] : a \in ParseContainers}
    \cup {[root |-> "xmlreplay", children |-> <<a, b>>] : a, b \in ParseContainers}
    \cup {[root |-> "xmlreplay", children |-> <<a, b, c>>] :
             a, c \in {x \in ParseContainers : x.name = "events"},
             b \in {x \in ParseContainers : x.name = "connections"}}

InitParse ==
    /\ EventIdle
    /\ StaticsRegistered
    /\ document \in ParseDocuments
    /\ aborted = FALSE
    /\ threads = NoThreads
    /\ m_mutex = Unlocked
    /\ facades = NoFacades
    /\ m_xml = <<>>
    /\ m_record = NULL
    /\ m_replay = NULL
    /\ recorders = <<>>
    /\ replays = <<>>
    /\ stream = <<>>
    /\ m_connections = EmptyMap
    /\ m_serialPorts = <<>>
    /\ conns = [conn \in ConnIds |-> NoConn]
    /\ buf = InitBuf
    /\ portCalls = 0
    /\ last = NoCall
    /\ lookups = <<>>
    /\ phase = "parse"
    /\ script = <<>>
    /\ pc = 1

NextParse == DeviceConnectionManager_replay

SpecParse == InitParse /\ [][NextParse]_vars

\* ------------------------------------------------------------------------
\* A recording session: the manager starts without a recorder; record() is
\* called with strings, files and the null sink between live calls that
\* the manager records
\* ------------------------------------------------------------------------
InitRecorder ==
    /\ EventIdle
    /\ StaticsRegistered
    /\ ProcessIdle
    /\ m_record = NULL
    /\ m_replay = NULL
    /\ recorders = <<>>
    /\ replays = <<>>
    /\ stream = <<>>
    /\ m_connections = EmptyMap
    /\ m_serialPorts = <<>>
    /\ conns = [conn \in ConnIds |-> NoConn]
    /\ buf = InitBuf
    /\ portCalls = 0
    /\ last = NoCall
    /\ lookups = <<>>
    /\ phase = "record"
    /\ script = <<>>
    /\ pc = 1

NextRecorder ==
    \/ DeviceConnectionManager_record
    \/ DeviceConnectionManager_recordFile
    \/ getAvailableSerialPorts
    \/ openConnection
    \/ destroy

SpecRecorder == InitRecorder /\ [][NextRecorder]_vars

\* ------------------------------------------------------------------------
\* The manager is switched between recording and replay: record() and
\* replay() are called in any order
\* ------------------------------------------------------------------------
NextSwitch ==
    \/ DeviceConnectionManager_record
    \/ DeviceConnectionManager_recordFile
    \/ DeviceConnectionManager_replay
    \/ DeviceConnectionManager_replayFile

SpecSwitch == InitRecorder /\ [][NextSwitch]_vars

\* ------------------------------------------------------------------------
\* A session with a damaged replay text: replay() parses it, connections
\* are built and read, write and bytesAvailable are called on them
\* ------------------------------------------------------------------------
InitMalformed ==
    /\ EventIdle
    /\ StaticsRegistered
    /\ ProcessIdle
    /\ m_record = NULL
    /\ m_replay = NULL
    /\ recorders = <<>>
    /\ replays = <<>>
    /\ stream = <<>>
    /\ m_connections = EmptyMap
    /\ m_serialPorts = <<>>
    /\ conns = [conn \in ConnIds |-> NoConn]
    /\ buf = InitBuf
    /\ portCalls = 0
    /\ last = NoCall
    /\ lookups = <<>>
    /\ phase = "malformed"
    /\ script = <<>>
    /\ pc = 1

NextMalformed ==
    \/ DeviceConnectionManager_replay
    \/ createInstance
    \/ read_
    \/ write_
    \/ bytesAvailable

SpecMalformed == InitMalformed /\ [][NextMalformed]_vars

\* ------------------------------------------------------------------------
\* Sessions about transfers: the replay holds tx and rx events, every
\* connection was built with it, and write (or read) is called
\* ------------------------------------------------------------------------
TransmitElements ==
    {Serialize(set(setData(XmlReplayEvent("tx"), <<10, 255>>), "len", Number(2))),
     Serialize(set(set(setData(XmlReplayEvent("tx"), <<10, 255>>),
                       "len", Number(1)), "req", Number(2))),
     Serialize(set(setData(XmlReplayEvent("tx"), <<10>>), "len", Number(1))),
     Serialize(set(setData(XmlReplayEvent("rx"), <<10, 255>>), "len", Number(2)))}

ReceiveElements ==
    {Serialize(set(setData(XmlReplayEvent("rx"), <<10, 255>>), "len", Number(2))),
     Serialize(set(set(setData(XmlReplayEvent("rx"), <<10>>), "len", Number(1)),
                   "req", Number(2))),
     Serialize(set(setData(XmlReplayEvent("rx"), <<10, 255, 10>>),
                   "len", Number(ReadSize + 1))),
     Serialize(set(setData(XmlReplayEvent("tx"), <<10>>), "len", Number(1)))}

TransferStreams(elements) == UNION {[1..n -> elements] : n \in 0..MaxLog}

\* the names of the connections of the session
TransferName(conn) == IF conn = 1 THEN "COM3" ELSE "COM4"

InitTransfer(session, elements) ==
    /\ EventIdle
    /\ StaticsRegistered
    /\ ProcessIdle
    /\ m_record = 1
    /\ recorders = <<XmlRecorder>>
    /\ m_replay = 1
    /\ \E elems \in TransferStreams(elements) :
         /\ stream = elems
         /\ replays = <<XmlReplay(StreamDocument(elems))>>
    /\ m_connections = EmptyMap
    /\ m_serialPorts = <<>>
    /\ conns = [conn \in ConnIds |-> DeviceConnection(TransferName(conn), 1, 1)]
    /\ buf = InitBuf
    /\ portCalls = 0
    /\ last = NoCall
    /\ lookups = <<>>
    /\ phase = session
    /\ script = <<>>
    /\ pc = 1

InitTransmit == InitTransfer("transmit", TransmitElements)

NextTransmit == write_

SpecTransmit == InitTransmit /\ [][NextTransmit]_vars

InitReceive == InitTransfer("receive", ReceiveElements)

NextReceive == read_

SpecReceive == InitReceive /\ [][NextReceive]_vars

\* ------------------------------------------------------------------------
\* The legacy class SerialPort: each object has a port name and opens,
\* closes and deletes its connection through the manager
\* ------------------------------------------------------------------------
\* a call on a SerialPort object
FacadeCall(call) ==
    /\ CallerScript(call)
    /\ UNCHANGED <<document, threads, m_mutex, m_xml, m_serialPorts>>

\* SerialPort::open, asserting !m_conn
SerialPort_open ==
    \E f \in FacadeIds :
        LET p == facades[f]
            call == Call("SerialPort::open", "serial", p.m_portName, NULL, f, <<>>)
        IN  /\ p.alive
            /\ p.m_conn = NULL
            /\ FacadeCall(call)
            /\ openConnectionFor(call, "serial", p.m_portName)
            /\ facades' = [facades EXCEPT ![f].m_conn = last'.conn]

\* SerialPort::close, asserting m_conn: the connection is deleted
SerialPort_close ==
    \E f \in FacadeIds :
        LET p == facades[f]
            call == Call("SerialPort::close", "", p.m_portName, p.m_conn, f, <<>>)
        IN  /\ p.alive
            /\ p.m_conn # NULL
            /\ FacadeCall(call)
            /\ destroyFor(call, p.m_conn)
            /\ facades' = [facades EXCEPT ![f].m_conn = NULL]

\* SerialPort::~SerialPort: close() if the object has a connection
SerialPort_destroy ==
    \E f \in FacadeIds :
        LET p == facades[f]
            call == Call("SerialPort::~SerialPort", "", p.m_portName, p.m_conn, f, <<>>)
        IN  /\ p.alive
            /\ FacadeCall(call)
            /\ IF p.m_conn # NULL
               THEN destroyFor(call, p.m_conn)
               ELSE /\ last' = [NoCall EXCEPT !.op = call.op]
                    /\ UNCHANGED <<m_record, m_replay, m_connections, recorders,
                                   replays, stream, conns, buf, portCalls, lookups,
                                   aborted>>
            /\ facades' = [facades EXCEPT ![f] = [alive |-> FALSE, m_conn |-> NULL,
                                                  m_portName |-> p.m_portName]]

\* the replay texts of the session: none (live), an empty one, and one of
\* a session that opened COM3 twice
FacadeStreams ==
    {<<>>,
     <<Serialize(OpenConnectionEvent("serial", "COM3")),
       Serialize(CloseConnectionEvent("serial", "COM3")),
       Serialize(OpenConnectionEvent("serial", "COM3"))>>}

\* the objects are constructed and setPortName was called on each
InitFacade ==
    /\ EventIdle
    /\ StaticsRegistered
    /\ m_serialPorts = <<>>
    /\ document = NoDocument
    /\ aborted = FALSE
    /\ threads = NoThreads
    /\ m_mutex = Unlocked
    /\ m_xml = <<>>
    /\ \E names \in [FacadeIds -> ManagerNames] :
         facades = [f \in FacadeIds |-> SerialPort(names[f])]
    /\ m_record = 1
    /\ recorders = <<XmlRecorder>>
    /\ m_connections = EmptyMap
    /\ conns = [conn \in ConnIds |-> NoConn]
    /\ buf = InitBuf
    /\ portCalls = 0
    /\ last = NoCall
    /\ lookups = <<>>
    /\ phase = "facade"
    /\ script = <<>>
    /\ pc = 1
    /\ \/ /\ m_replay = NULL
          /\ replays = <<>>
          /\ stream = <<>>
       \/ /\ m_replay = 1
          /\ \E elems \in FacadeStreams :
               /\ stream = elems
               /\ replays = <<XmlReplay(StreamDocument(elems))>>

NextFacade ==
    \/ SerialPort_open
    \/ SerialPort_close
    \/ SerialPort_destroy

SpecFacade == InitFacade /\ [][NextFacade]_vars

\* ------------------------------------------------------------------------
\* getNextEvent statement by statement: the operations of a replay session
\* call it on the thread "operation", which is at one of its statements
\* ------------------------------------------------------------------------
\* getNextEvent that waits at an empty queue until an event is there
getNextEvent_wait(at, r, type, ident) ==
    IF at = "contains(type)"
    THEN (IF type \in DOMAIN r.m_eventIndex THEN "contains(id)" ELSE "return")
    ELSE IF at = "contains(id)"
    THEN (IF ident \in DOMAIN r.m_eventIndex[type] THEN "isEmpty" ELSE "return")
    ELSE IF at = "isEmpty"
    THEN (IF r.m_eventIndex[type][ident] # <<>> THEN "removeFirst" ELSE "isEmpty")
    ELSE "return"

\* the statement XmlReplay::getNextEvent(type, id) goes to from one of
\* its tests
getNextEvent_goto(at, r, type, ident) ==
    IF at = "contains(type)"
    THEN (IF type \in DOMAIN r.m_eventIndex THEN "contains(id)" ELSE "return")
    ELSE IF at = "contains(id)"
    THEN (IF ident \in DOMAIN r.m_eventIndex[type] THEN "isEmpty" ELSE "return")
    ELSE IF at = "isEmpty"
    THEN (IF r.m_eventIndex[type][ident] # <<>> THEN "removeFirst" ELSE "return")
    ELSE "return"

\* the keys the operations of a connection named COM3 look up
LookupKeys ==
    {[type |-> "flush", ident |-> ""], [type |-> "rx", ident |-> ""],
     [type |-> "set", ident |-> "baudRate"],
     [type |-> "closeConnection", ident |-> "COM3"],
     [type |-> "tx", ident |-> setData(XmlReplayEvent("tx"), <<10>>).m_data]}

LookupElements ==
    {Serialize(XmlReplayEvent("flush")),
     Serialize(set(setData(XmlReplayEvent("rx"), <<10, 255>>), "len", Number(2))),
     Serialize(set(SetValueEvent("baudRate", 1200), "directions", Number(1)))}

LookupStreams == UNION {[1..n -> LookupElements] : n \in 0..MaxLog}

LookupUnchanged ==
    /\ UNCHANGED <<m_record, m_replay, m_connections, m_serialPorts, recorders,
                   stream, conns, buf, portCalls, last, phase, script, pc,
                   document, aborted, m_mutex, m_xml, facades>>
    /\ UNCHANGED <<eventVars, registryVars>>

\* the key of the getNextEvent call that is running
Running == lookups[Len(lookups)]

\* an operation calls m_replay->getNextEvent(type, id)
XmlReplay_getNextEvent ==
    \E k \in LookupKeys :
        /\ phase = "lookup"
        /\ threads["operation"].pc = "idle"
        /\ threads["operation"].calls < MaxLookups
        /\ threads' = [threads EXCEPT !["operation"].pc = "contains(type)",
                                      !["operation"].calls = @ + 1]
        /\ lookups' = Append(lookups, [replay |-> m_replay, type |-> k.type,
                                       ident |-> k.ident, event |-> NULL])
        /\ UNCHANGED replays
        /\ LookupUnchanged

\* one of the tests m_eventIndex.contains(type), ids.contains(id),
\* events.isEmpty()
XmlReplay_test ==
    /\ phase = "lookup"
    /\ threads["operation"].pc \in {"contains(type)", "contains(id)", "isEmpty"}
    /\ threads' = [threads EXCEPT !["operation"].pc =
                       getNextEvent_goto(@, replays[Running.replay],
                                         Running.type, Running.ident)]
    /\ UNCHANGED <<replays, lookups>>
    /\ LookupUnchanged

\* event = events.first(); events.removeFirst()
XmlReplay_removeFirst ==
    /\ phase = "lookup"
    /\ threads["operation"].pc = "removeFirst"
    /\ LET g == getNextEvent(replays[Running.replay], Running.type, Running.ident)
       IN  /\ replays' = [replays EXCEPT ![Running.replay] = g.replay]
           /\ lookups' = [lookups EXCEPT ![Len(lookups)].event = g.event]
    /\ threads' = [threads EXCEPT !["operation"].pc = "return"]
    /\ LookupUnchanged

\* return event
XmlReplay_return ==
    /\ phase = "lookup"
    /\ threads["operation"].pc = "return"
    /\ threads' = [threads EXCEPT !["operation"].pc = "idle"]
    /\ UNCHANGED <<replays, lookups>>
    /\ LookupUnchanged

InitLookup ==
    /\ EventIdle
    /\ StaticsRegistered
    /\ ProcessIdle
    /\ m_record = NULL
    /\ recorders = <<>>
    /\ m_replay = 1
    /\ \E elems \in LookupStreams :
         /\ stream = elems
         /\ replays = <<XmlReplay(StreamDocument(elems))>>
    /\ m_connections = EmptyMap
    /\ m_serialPorts = <<>>
    /\ conns = [conn \in ConnIds |-> NoConn]
    /\ buf = InitBuf
    /\ portCalls = 0
    /\ last = NoCall
    /\ lookups = <<>>
    /\ phase = "lookup"
    /\ script = <<>>
    /\ pc = 1

NextLookup ==
    \/ XmlReplay_getNextEvent
    \/ XmlReplay_test
    \/ XmlReplay_removeFirst
    \/ XmlReplay_return

\* the thread that runs an operation is scheduled again and again, and the
\* caller issues the calls of the session
SpecLookup == InitLookup /\ [][NextLookup]_vars /\ WF_vars(NextLookup)

\* ------------------------------------------------------------------------
\* A live session in which record() is called on the manager while
\* connections are open
\* ------------------------------------------------------------------------
InitDangle ==
    /\ EventIdle
    /\ StaticsRegistered
    /\ ProcessIdle
    /\ m_record = 1
    /\ recorders = <<XmlRecorder>>
    /\ m_replay = NULL
    /\ replays = <<>>
    /\ stream = <<>>
    /\ m_connections = EmptyMap
    /\ m_serialPorts = <<>>
    /\ conns = [conn \in ConnIds |-> NoConn]
    /\ buf = InitBuf
    /\ portCalls = 0
    /\ last = NoCall
    /\ lookups = <<>>
    /\ phase = "dangle"
    /\ script = <<>>
    /\ pc = 1

NextDangle ==
    \/ openConnection
    \/ DeviceConnectionManager_record
    \/ flush
    \/ write_

SpecDangle == InitDangle /\ [][NextDangle]_vars

\* ------------------------------------------------------------------------
\* Two threads record events on the recorder of the manager:
\* XmlReplayEvent::record statement by statement, the writer call by call
\* ------------------------------------------------------------------------
\* record() calls one thread makes
MaxRecordCalls == 2

\* the events the threads record
ThreadEvents ==
    {set(setData(XmlReplayEvent("tx"), <<10, 255>>), "len", Number(2)),
     XmlReplayEvent("flush"),
     GetValueEvent("bytesAvailable")}

ThreadUnchanged ==
    /\ UNCHANGED <<m_record, m_replay, m_connections, m_serialPorts, replays,
                   stream, conns, buf, portCalls, last, lookups, phase, script,
                   pc, document, aborted, facades>>
    /\ UNCHANGED <<eventVars, registryVars>>

\* a thread calls event.record(writer) with the recorder of the manager
XmlReplayEvent_record ==
    \E t \in Threads, e \in ThreadEvents :
        /\ phase = "threads"
        /\ threads[t].pc = "idle"
        /\ threads[t].calls < MaxRecordCalls
        /\ m_record # NULL
        /\ threads' = [threads EXCEPT ![t].pc = "lock", ![t].event = e,
                                      ![t].calls = @ + 1]
        /\ UNCHANGED <<recorders, m_mutex, m_xml>>
        /\ ThreadUnchanged

\* writer->lock() returns
XmlRecorder_lock ==
    \E t \in Threads :
        /\ threads[t].pc = "lock"
        /\ lock(m_mutex, t).acquired
        /\ m_mutex' = lock(m_mutex, t).m_mutex
        /\ threads' = [threads EXCEPT ![t].pc = "write",
                                      ![t].todo = Tokens(Serialize(threads[t].event))]
        /\ UNCHANGED <<recorders, m_xml>>
        /\ ThreadUnchanged

\* writer->xml() << *this: the next call on the writer
QXmlStreamWriter_write ==
    \E t \in Threads :
        /\ threads[t].pc = "write"
        /\ threads[t].todo # <<>>
        /\ m_xml' = Append(m_xml, Head(threads[t].todo))
        /\ threads' = [threads EXCEPT ![t].todo = Tail(@)]
        /\ UNCHANGED <<recorders, m_mutex>>
        /\ ThreadUnchanged

\* writer->unlock(): the record() call is complete, the element is part
\* of what the recorder has written
XmlRecorder_unlock ==
    \E t \in Threads :
        /\ threads[t].pc = "write"
        /\ threads[t].todo = <<>>
        /\ m_mutex' = unlock(m_mutex)
        /\ recorders' = record(recorders, m_record, threads[t].event)
        /\ threads' = [threads EXCEPT ![t].pc = "idle", ![t].event = NoEvent]
        /\ UNCHANGED m_xml
        /\ ThreadUnchanged

InitThreads ==
    /\ EventIdle
    /\ StaticsRegistered
    /\ document = NoDocument
    /\ aborted = FALSE
    /\ threads = NoThreads
    /\ m_mutex = Unlocked
    /\ facades = NoFacades
    /\ m_xml = PrologueTokens
    /\ m_record = 1
    /\ recorders = <<XmlRecorder>>
    /\ m_replay = NULL
    /\ replays = <<>>
    /\ stream = <<>>
    /\ m_connections = EmptyMap
    /\ m_serialPorts = <<>>
    /\ conns = [conn \in ConnIds |-> NoConn]
    /\ buf = InitBuf
    /\ portCalls = 0
    /\ last = NoCall
    /\ lookups = <<>>
    /\ phase = "threads"
    /\ script = <<>>
    /\ pc = 1

NextThreads ==
    \/ XmlReplayEvent_record
    \/ XmlRecorder_lock
    \/ QXmlStreamWriter_write
    \/ XmlRecorder_unlock

SpecThreads == InitThreads /\ [][NextThreads]_vars

\* ------------------------------------------------------------------------
\* Properties
\* ------------------------------------------------------------------------
\* an element without its timestamp
Tuple(el) ==
    [tag |-> el.tag,
     attrs |-> SelectSeq(el.attrs, LAMBDA a : a.name # "time"),
     text |-> el.text]

Tuples(elems) == [i \in 1..Len(elems) |-> Tuple(elems[i])]

HasAttr(el, name) == \E i \in 1..Len(el.attrs) : el.attrs[i].name = name

\* the elements of the stream that belong to a registered event class, in
\* stream order; the k-th of them is the k-th parsed event
KnownElements == SelectSeq(stream, LAMBDA el : el.tag \in s_eventFactories)

\* positions in KnownElements of the events with a discriminator and identity
RECURSIVE PositionsFrom(_, _, _)
PositionsFrom(k, type, ident) ==
    IF k > Len(KnownElements) THEN <<>>
    ELSE (IF KnownElements[k].tag = type /\ id(read(KnownElements[k])) = ident
          THEN <<k>> ELSE <<>>) \o PositionsFrom(k + 1, type, ident)

\* how many of the first k lookups used the key of the k-th
NthOfKey(k) ==
    Cardinality({j \in 1..k : /\ lookups[j].replay = lookups[k].replay
                              /\ lookups[j].type = lookups[k].type
                              /\ lookups[j].ident = lookups[k].ident})

\* C1: for every (discriminator, identity) key the n-th getNextEvent call
\* with that key returns the n-th event of the stream with that
\* discriminator and identity, for n up to the number of such events,
\* whatever lookups for other keys come in between.
C1_NthLookupReturnsNthEvent ==
    \A k \in 1..Len(lookups) :
        LET l == lookups[k]
            expected == PositionsFrom(1, l.type, l.ident)
            n == NthOfKey(k)
        IN  n <= Len(expected) =>
                /\ l.event = expected[n]
                /\ Tuple(Serialize(replays[l.replay].m_events[l.event]))
                       = Tuple(KnownElements[expected[n]])

\* two lookups of one key found the first and the second event of that key
\* with a lookup of another key between them
C1_Witness ==
    \E i, j, k \in 1..Len(lookups) :
        /\ i < j /\ j < k
        /\ lookups[i].type = lookups[k].type
        /\ lookups[j].type # lookups[i].type
        /\ lookups[i].event # NULL
        /\ lookups[k].event # NULL
        /\ NthOfKey(k) = 2

\* C2: within a replay session no event is returned by two lookups.
C2_EventReturnedAtMostOnce ==
    \A i, j \in 1..Len(lookups) :
        (/\ i # j
         /\ lookups[i].replay = lookups[j].replay
         /\ lookups[i].event # NULL)
        => lookups[i].event # lookups[j].event

\* two lookups of the same key both returned an event
C2_Witness ==
    \E i, j \in 1..Len(lookups) :
        /\ i < j
        /\ lookups[i].type = lookups[j].type
        /\ lookups[i].event # NULL
        /\ lookups[j].event # NULL

\* the replay of the recorded session has repeated every call
ReplayComplete == phase = "repeat" /\ pc > Len(script)

\* C3: the log of a replay that repeats the calls of a recorded live session
\* equals the log of that session event for event, timestamps ignored.
C3_ReplayReproducesLog ==
    ReplayComplete => Tuples(recorders[2].events) = Tuples(recorders[1].events)

\* C4: every operation call that gets past its early return appends exactly
\* one event to the active recorder, live and in replay.
C4_EveryCallRecordsOneEvent ==
    [][(last'.hasEvent /\ <<script, pc>>' # <<script, pc>>)
       => Len(recorders'[m_record].events) = Len(recorders[m_record].events) + 1]_vars

BoolOperations ==
    {"openConnection", "open", "setBaudRate", "setDataBits", "setParity",
     "setStopBits", "setFlowControl", "clear", "flush"}

\* C5: in replay mode a call whose lookup finds no event has an outcome with
\* an "error" attribute and returns failure.
C5_ExhaustedCallFails ==
    (last.hasEvent /\ last.replayed /\ last.found = NULL)
    => /\ ~ok(last.event)
       /\ last.op \in BoolOperations => ~last.ok
       /\ last.op \in {"read", "write"} => last.len < 0

\* the call the caller issued last
LastCall == script[Len(script)]

\* no tx element of the stream carries the payload of these bytes
NoTxWithPayload(bytes) ==
    \A i \in 1..Len(stream) :
        stream[i].tag = "tx" => stream[i].text # setData(XmlReplayEvent("tx"), bytes).m_data

\* C6: in replay mode a write whose bytes no tx event of the log carries
\* returns -1 with an outcome that has "error" and len = -1, and so does a
\* read when no rx event remains.
C6_TransferPastReplay ==
    /\ (last.op = "write" /\ last.replayed /\ NoTxWithPayload(LastCall.bytes))
       => /\ last.len = 0 - 1
          /\ ~ok(last.event)
          /\ get(last.event, "len") = "-1"
    /\ (last.op = "read" /\ last.replayed /\ last.found = NULL)
       => /\ last.len = 0 - 1
          /\ ~ok(last.event)
          /\ get(last.event, "len") = "-1"

\* a write against a log that holds only an openConnection event
C6_Witness ==
    /\ last.op = "write"
    /\ last.replayed
    /\ Len(stream) = 1
    /\ stream[1].tag = "openConnection"
    /\ last.len = 0 - 1

\* C7: in replay mode an open without a remaining openConnection event
\* returns false with the device-not-found error and leaves the name
\* unregistered and no connection opened; a close without a remaining
\* closeConnection event records an outcome with the resource error.
C7_OpenCloseExhausted ==
    /\ (last.op = "openConnection" /\ last.hasEvent /\ last.replayed
        /\ last.found = NULL)
       => /\ ~last.ok
          /\ get(last.event, "error") = "1"
          /\ LastCall.name \notin DOMAIN m_connections
          /\ \A conn \in ConnIds :
                 ~(conns[conn].m_opened /\ conns[conn].m_name = LastCall.name)
    /\ (last.op \in {"close", "delete"} /\ last.hasEvent /\ last.replayed
        /\ last.found = NULL)
       => /\ get(last.event, "error") = "9"
          /\ recorders[m_record].events # <<>>
          /\ recorders[m_record].events[Len(recorders[m_record].events)]
                 = Serialize(last.event)

\* an open failed for want of an event after a close had none either
C7_Witness ==
    /\ last.op = "openConnection"
    /\ last.replayed
    /\ last.hasEvent
    /\ last.found = NULL
    /\ \E i \in 1..Len(lookups) :
           lookups[i].type = "closeConnection" /\ lookups[i].event = NULL

\* C8: connections backed by a replay make no call on the transport.
C8_NoTransportCallInReplay ==
    /\ \A conn \in ConnIds : conns[conn].alive => conns[conn].m_replay # NULL
    /\ portCalls = 0

\* an operation ran past the end of the replay and the port was not touched
C8_Witness ==
    /\ last.op \in {"close", "delete"}
    /\ last.replayed
    /\ last.found = NULL
    /\ Len(lookups) >= 2
    /\ portCalls = 0

\* the recorded session is a successful open, a write that transmitted all
\* its bytes and a close, and the replay repeats these calls
C9_Session ==
    /\ phase = "repeat"
    /\ Len(script) >= 3
    /\ script[1].op = "openConnection"
    /\ script[2].op = "write"
    /\ script[3].op \in {"close", "delete"}
    /\ Len(stream) >= 3
    /\ Tuple(stream[1])
           = Tuple(Serialize(OpenConnectionEvent("serial", script[1].name)))
    /\ stream[2].tag = "tx"
    /\ \E i \in 1..Len(stream[2].attrs) :
           stream[2].attrs[i] = Attr("len", Number(Len(script[2].bytes)))
    /\ stream[3].tag = "closeConnection"

C9_Results ==
    /\ pc = 2 => /\ last.ok
                 /\ script[1].name \in DOMAIN m_connections
                 /\ m_connections[script[1].name] = last.conn
    /\ pc = 3 => last.len = Len(script[2].bytes)
    /\ pc = 4 => ok(last.event)

\* C9 as claimed: replaying the log of a successful open, a complete write
\* of k bytes and a close gives open = success, write = k and a close
\* outcome without "error".
C9_ReplayOfSessionSucceeds == C9_Session => C9_Results

\* C9 amended: the same, for a log whose closeConnection event has no
\* "error" attribute.
C9_ReplayOfCleanSessionSucceeds ==
    (C9_Session /\ ~HasAttr(stream[3], "error")) => C9_Results

\* the replay of such a session of two bytes has repeated the close
C9_Witness ==
    /\ C9_Session
    /\ ~HasAttr(stream[3], "error")
    /\ Len(script[2].bytes) = 2
    /\ pc = 4
    /\ ok(last.event)

\* C10: a replayed read that finds an rx event leaves the recorded payload
\* in the caller's buffer and returns the recorded length.
C10_ReplayedReadFillsBuffer ==
    (last.op = "read" /\ last.replayed /\ last.found # NULL)
    => LET payload == getData(last.event)
       IN  /\ last.len = Len(payload)
           /\ \A i \in 1..Len(payload) : i <= Len(buf) => buf[i] = payload[i]

\* C11: writing an event with operator<< and parsing the element back
\* gives one event with the same ordered attribute list and the same
\* payload, whatever constructor, set, setValue and setData calls built it.
C11_WriteThenParseGivesSameEvent ==
    parsed.made => parsed.events = <<parsed.source>>

\* C12: getData after setData(b) returns b, for every byte sequence b of
\* length 0 to MaxBytes.
C12_GetDataReturnsSetData ==
    (sent.made /\ got.made) => got.bytes = sent.bytes

\* the connections that are open
OpenConnections == {c \in ConnIds : conns[c].alive /\ conns[c].m_opened}

\* the calls so far are openConnection calls and deletions of connections
ManagerCallsOnly ==
    \A i \in 1..Len(script) : script[i].op \in {"openConnection", "delete"}

\* the step is the call of op that the caller issues next
IssuedStep(op) ==
    /\ Len(script') = Len(script) + 1
    /\ script'[Len(script')].op = op

\* the log of the active recorder
Log == recorders[m_record].events

\* C13: after any sequence of openConnection calls and connection
\* teardowns (each with its connectionClosed call) every name of the
\* open-connections map maps to one open connection of that name, no
\* connection is mapped under two names, and no two open connections have
\* the same name.
C13_OneOpenConnectionPerName ==
    ManagerCallsOnly =>
        /\ \A n \in DOMAIN m_connections :
               /\ m_connections[n] \in OpenConnections
               /\ conns[m_connections[n]].m_name = n
        /\ \A c, d \in OpenConnections :
               conns[c].m_name = conns[d].m_name => c = d

\* two connections are open under two names and a further openConnection
\* of one of the names was refused
C13_Witness ==
    /\ ManagerCallsOnly
    /\ Cardinality(OpenConnections) = 2
    /\ last.op = "openConnection"
    /\ last.warning = AlreadyOpen

\* C14: an openConnection call with a name that is in the open-connections
\* map returns failure and leaves the map, every connection, the recorder's
\* log, the replay, the lookups made and the transport calls as they were.
C14_DuplicateNameChangesNothing ==
    [][(IssuedStep("openConnection")
        /\ script'[Len(script')].name \in DOMAIN m_connections)
       => /\ ~last'.ok
          /\ last'.conn = NULL
          /\ ~last'.hasEvent
          /\ UNCHANGED <<m_record, m_replay, m_connections, conns, recorders,
                         replays, lookups, portCalls, buf>>]_vars

\* an openConnection of a registered type was refused for its name while
\* the replay still held an openConnection event of that name
C14_Witness ==
    /\ last.op = "openConnection"
    /\ last.warning = AlreadyOpen
    /\ m_replay # NULL
    /\ LastCall.name \in DOMAIN m_connections
    /\ conns[m_connections[LastCall.name]].m_opened
    /\ getNextEvent(replays[m_replay], "openConnection", LastCall.name).event # NULL

\* C15: an openConnection call with a type that has no registered factory
\* returns failure with the unknown-type warning, also when the name is in
\* the open-connections map, and builds no connection, records no event,
\* makes no lookup in the replay and leaves the map as it was.
C15_UnknownTypeRefusedFirst ==
    [][(IssuedStep("openConnection")
        /\ script'[Len(script')].type \notin s_factories)
       => /\ ~last'.ok
          /\ last'.conn = NULL
          /\ last'.warning = UnknownType
          /\ ~last'.hasEvent
          /\ UNCHANGED <<m_connections, conns, recorders, replays, lookups,
                         portCalls>>]_vars

\* an openConnection of an unknown type and a name that is in the map was
\* refused for its type
C15_Witness ==
    /\ last.op = "openConnection"
    /\ last.warning = UnknownType
    /\ LastCall.type \notin s_factories
    /\ LastCall.name \in DOMAIN m_connections

\* C16: when openConnection builds a connection whose open() ends with an
\* "error" attribute (live transport error, replayed open missing or with
\* an error), it returns failure, the connection object is gone, the one
\* event recorded is the openConnection event (no closeConnection event, no
\* lookup of one, no transport call beyond those of open), the map is as it
\* was, and the name is still free for a later openConnection.
C16_FailedOpenLeavesNoTrace ==
    [][(IssuedStep("openConnection")
        /\ last'.hasEvent
        /\ "error" \in DOMAIN last'.event.m_values)
       => /\ ~last'.ok
          /\ last'.conn = NULL
          /\ last'.warning = UnableToOpen
          /\ conns' = conns
          /\ m_connections' = m_connections
          /\ script'[Len(script')].name \notin DOMAIN m_connections'
          /\ last'.event.tag = "openConnection"
          /\ recorders' = [recorders EXCEPT
                               ![m_record].events = Append(@, Serialize(last'.event))]
          /\ portCalls' = portCalls + (IF m_replay = NULL THEN 3 ELSE 0)
          /\ Len(lookups') = Len(lookups) + (IF m_replay = NULL THEN 0 ELSE 1)
          /\ (m_replay # NULL => lookups'[Len(lookups')].type = "openConnection")]_vars

\* an openConnection of a name failed to open and a later openConnection
\* of the same name succeeded
C16_Witness ==
    /\ last.op = "openConnection"
    /\ last.ok
    /\ LastCall.name \in DOMAIN m_connections
    /\ \E i \in 1..Len(Log) :
         /\ i < Len(Log)
         /\ Log[i].tag = "openConnection"
         /\ HasAttr(Log[i], "error")
         /\ \E k \in 1..Len(Log[i].attrs) :
              Log[i].attrs[k] = Attr("name", LastCall.name)

\* C17: the connectionClosed call of a teardown removes the name of the
\* connection from the open-connections map when the name maps to this very
\* connection; when the name maps to another connection or to none the map
\* is left as it was, and the teardown completes in either case.
C17_ConnectionClosedRemovesOwnEntryOnly ==
    [][(IssuedStep("delete")
        /\ conns[script'[Len(script')].conn].m_opened)
       => LET conn == script'[Len(script')].conn
              name == conns[conn].m_name
          IN  /\ ~conns'[conn].alive
              /\ last'.ok
              /\ IF name \in DOMAIN m_connections /\ m_connections[name] = conn
                 THEN /\ DOMAIN m_connections' = DOMAIN m_connections \ {name}
                      /\ \A n \in DOMAIN m_connections' :
                             m_connections'[n] = m_connections[n]
                 ELSE m_connections' = m_connections]_vars

\* an opened connection that the manager did not register was deleted
\* while its name mapped to another connection, which is still mapped
C17_Witness ==
    /\ last.op = "delete"
    /\ last.warning = NotCreatedByOpenConnection
    /\ \E n \in DOMAIN m_connections :
         /\ m_connections[n] # last.conn
         /\ m_connections[n] \in OpenConnections

\* the getAvailableSerialPorts elements of the replay text, in text order
PortElements ==
    SelectSeq(stream, LAMBDA el : el.tag = "getAvailableSerialPorts")

\* the lookups of getAvailableSerialPorts events made so far
PortLookups ==
    Cardinality({k \in 1..Len(lookups) :
                    lookups[k].type = "getAvailableSerialPorts"})

\* the list the latest getAvailableSerialPorts call returned
PreviousPorts ==
    IF last.op = "getAvailableSerialPorts" THEN last.event.m_ports ELSE <<>>

C19_EveryEnumerationRecorded ==
    [][IssuedStep("getAvailableSerialPorts")
       => recorders' =
             [recorders EXCEPT ![m_record].events =
                 Append(@, [tag |-> "getAvailableSerialPorts",
                            attrs |-> <<Attr("time", Timestamp)>>,
                            text |-> <<>>,
                            ports |-> WritePorts(last'.event.m_ports)])]]_vars

\* three calls were recorded: a live one, one replayed from an event and
\* one served from the cached list
C19_Witness ==
    /\ Len(Log) = 3
    /\ \A i \in 1..3 : Log[i].tag = "getAvailableSerialPorts"
    /\ Len(lookups) = 2
    /\ lookups[1].event # NULL
    /\ lookups[2].event = NULL
    /\ Log[3].ports = Log[2].ports
    /\ Log[1].ports # Log[2].ports

\* the registry a call was made on, before and after the call
RegistryOf(name) == IF name = "event" THEN eventRegistry ELSE connectionRegistry
RegistryAfter(name) == IF name = "event" THEN eventRegistry' ELSE connectionRegistry'

\* C20: in both registries registerClass of a registered key returns false
\* and registerClass of a new key returns true and maps the key to the
\* factory given; no call changes the factory of a registered key, so each
\* key keeps the factory of its first registration; createInstance of a tag
\* that is not registered returns no event; and createInstance changes no
\* registry.
C20_FirstRegistrationWins ==
    [][LET c == registryCall'
           before == RegistryOf(c.registry)
           after == RegistryAfter(c.registry)
       IN  /\ \A k \in DOMAIN eventRegistry :
                k \in DOMAIN eventRegistry' /\ eventRegistry'[k] = eventRegistry[k]
           /\ \A k \in DOMAIN connectionRegistry :
                /\ k \in DOMAIN connectionRegistry'
                /\ connectionRegistry'[k] = connectionRegistry[k]
           /\ c.op = "registerClass" =>
                IF c.key \in DOMAIN before
                THEN ~c.ok /\ after = before
                ELSE /\ c.ok
                     /\ DOMAIN after = DOMAIN before \cup {c.key}
                     /\ after[c.key] = c.factory
           /\ c.op = "createInstance" =>
                /\ eventRegistry' = eventRegistry
                /\ connectionRegistry' = connectionRegistry
                /\ (c.key \notin DOMAIN eventRegistry
                       => ~c.ok /\ c.event = NoEvent)]_vars

\* a second registration of a tag with another factory returned false
\* and the tag still has the factory of its first registration, while the
\* connection registry holds a registration too
C20_Witness ==
    /\ registryCall.op = "registerClass"
    /\ registryCall.registry = "event"
    /\ ~registryCall.ok
    /\ registryCall.key \in DOMAIN eventRegistry
    /\ eventRegistry[registryCall.key] # registryCall.factory
    /\ connectionRegistry # EmptyMap

\* the elements of the event containers of the document, in document order
RECURSIVE ContainerElements(_)
ContainerElements(children) ==
    IF children = <<>> THEN <<>>
    ELSE (IF Head(children).name = "events" THEN Head(children).elems ELSE <<>>)
         \o ContainerElements(Tail(children))

\* those of them that belong to a registered event class
DocumentEvents ==
    SelectSeq(ContainerElements(document.children),
              LAMBDA el : el.tag \in s_eventFactories)

\* the document without its unknown top-level elements and without the
\* event elements of no registered class
Stripped(doc) ==
    LET containers == SelectSeq(doc.children, LAMBDA c : c.name = "events")
    IN  [root |-> doc.root,
         children |->
            [i \in 1..Len(containers) |->
                [name |-> "events",
                 elems |-> SelectSeq(containers[i].elems,
                                     LAMBDA el : el.tag \in s_eventFactories)]]]

\* C21: parsing a document with unknown top-level elements or event
\* elements of no registered class gives the chain and the index of the
\* same document without these elements: the chain is the known event
\* elements in document order, each linked to the next, and every queue of
\* the index holds the events of its discriminator and identity in
\* document order.
C21_UnknownElementsSkipped ==
    (phase = "parse" /\ m_replay # NULL) =>
        LET r == replays[m_replay]
            n == Len(DocumentEvents)
        IN  /\ r = XmlReplay(Stripped(document))
            /\ r.m_events = [i \in 1..n |-> read(DocumentEvents[i])]
            /\ r.m_next = [i \in 1..n |-> IF i < n THEN i + 1 ELSE NULL]
            /\ \A i \in 1..n :
                   /\ DocumentEvents[i].tag \in DOMAIN r.m_eventIndex
                   /\ id(r.m_events[i]) \in DOMAIN r.m_eventIndex[DocumentEvents[i].tag]
                   /\ \E k \in 1..Len(r.m_eventIndex[DocumentEvents[i].tag][id(r.m_events[i])]) :
                          r.m_eventIndex[DocumentEvents[i].tag][id(r.m_events[i])][k] = i
            /\ \A type \in DOMAIN r.m_eventIndex :
                   \A ident \in DOMAIN r.m_eventIndex[type] :
                       LET q == r.m_eventIndex[type][ident]
                       IN  /\ \A k \in 1..Len(q) :
                                  /\ q[k] \in 1..n
                                  /\ DocumentEvents[q[k]].tag = type
                                  /\ id(r.m_events[q[k]]) = ident
                           /\ \A j, k \in 1..Len(q) : j < k => q[j] < q[k]

\* a flush and an unknown element, a <connections> element with a flush
\* element inside, then an unknown element and a flush were parsed: the two
\* flush events of the event containers are the chain and the queue
C21_Witness ==
    /\ phase = "parse"
    /\ m_replay # NULL
    /\ Len(document.children) = 3
    /\ document.children[2].name = "connections"
    /\ document.children[2].elems # <<>>
    /\ Len(document.children[1].elems) = 2
    /\ document.children[1].elems[1].tag = "flush"
    /\ document.children[1].elems[2].tag = "readyRead"
    /\ Len(document.children[3].elems) = 2
    /\ document.children[3].elems[1].tag = "readyRead"
    /\ document.children[3].elems[2].tag = "flush"
    /\ Len(replays[m_replay].m_events) = 2
    /\ replays[m_replay].m_eventIndex["flush"][""] = <<1, 2>>

\* C22: the recording stream is append-only: in every step the events a
\* recorder has written stay as they are, in their places, and a step adds
\* at most one event, behind them, which is the event of the call made in
\* this step; so what was written at any point is a prefix of what is
\* written at every later point, in the order of the record calls.
C22_RecordingIsAppendOnly ==
    [][/\ Len(recorders') >= Len(recorders)
       /\ \A w \in 1..Len(recorders) :
             \/ recorders'[w].events = recorders[w].events
             \/ /\ last'.recorded
                /\ recorders'[w].events
                      = Append(recorders[w].events, Serialize(last'.event))]_vars

\* a live session wrote three events of three classes and its replay has
\* written the first two of them again to the second recorder
C22_Witness ==
    /\ Len(recorders) = 2
    /\ Len(recorders[1].events) = 3
    /\ recorders[1].events[1].tag = "openConnection"
    /\ recorders[1].events[2].tag = "tx"
    /\ recorders[1].events[3].tag = "closeConnection"
    /\ Len(recorders[2].events) = 2
    /\ recorders[2].events[2].tag = "tx"

\* C23: a recorder starts with root and container open and no event, and
\* its destructor closes both: every recorder but the active one is
\* finalized and holds the events recorded while it was active, and no
\* event is written to a finalized recorder. A record() call with a new
\* sink or with the null sink finalizes the recorder in use in the same
\* call; after the null sink the calls issued through the manager write
\* nothing.
C23_RecorderFinalizedOnSwitch ==
    [][/\ \A w \in 1..Len(recorders') : recorders'[w].closed <=> w # m_record'
       /\ \A w \in 1..Len(recorders) :
             recorders[w].closed => recorders'[w] = recorders[w]
       /\ \A w \in 1..Len(recorders') :
             w > Len(recorders) => /\ recorders'[w].events = <<>>
                                   /\ m_record' = w
       /\ (m_record # NULL /\ m_record' # m_record) =>
             /\ recorders'[m_record].closed
             /\ recorders'[m_record].events = recorders[m_record].events
       /\ (script' # script /\ m_record = NULL) => recorders' = recorders
       /\ (script' # script /\ m_record # NULL /\ last'.hasEvent) =>
             recorders' = [recorders EXCEPT ![m_record].events =
                              Append(@, Serialize(last'.event))]]_vars

\* a first recorder was finalized with two events by record() with the null
\* sink, a call went unrecorded, and a second recorder is in use
C23_Witness ==
    /\ Len(recorders) = 2
    /\ m_record = 2
    /\ recorders[1].closed
    /\ Len(recorders[1].events) = 2
    /\ ~recorders[2].closed
    /\ Len(script) = 3
    /\ last.op = "getAvailableSerialPorts"
    /\ last.hasEvent
    /\ ~last.recorded
    /\ recorders[2].events = <<>>

\* the calls on the writer that make these elements, one after the other
RECURSIVE AllTokens(_)
AllTokens(elems) ==
    IF elems = <<>> THEN <<>> ELSE Tokens(Head(elems)) \o AllTokens(Tail(elems))

\* the threads that are between lock() and unlock()
Writers == {t \in Threads : threads[t].pc = "write"}

\* the calls a thread between lock() and unlock() has made on the writer
WrittenBy(t) ==
    LET all == Tokens(Serialize(threads[t].event))
    IN  SubSeq(all, 1, Len(all) - Len(threads[t].todo))

\* C24: with two threads in record() on one recorder at most one is
\* between lock() and unlock(), and the calls on the writer are those of
\* the prologue, then those of whole elements (start, time, attributes,
\* payload, end) one element after the other, then those the thread that
\* holds the lock has made so far for its element.
C24_ConcurrentRecordsWriteWholeEvents ==
    /\ Cardinality(Writers) <= 1
    /\ \A t \in Writers : m_mutex = t
    /\ m_xml = PrologueTokens
               \o AllTokens(recorders[m_record].events)
               \o (IF Writers = {} THEN <<>>
                   ELSE WrittenBy(CHOOSE t \in Writers : TRUE))

\* the operation thread is in the middle of its tx element while the
\* notification thread waits for the lock, after an element of each
C24_Witness ==
    /\ threads["operation"].pc = "write"
    /\ Len(threads["operation"].todo) = 2
    /\ threads["operation"].event.tag = "tx"
    /\ threads["notification"].pc = "lock"
    /\ threads["notification"].calls = 2
    /\ threads["operation"].calls = 2
    /\ Len(recorders[m_record].events) = 2

\* every entry of the list is another key
EachKeyOnce(keys) == \A i, j \in 1..Len(keys) : keys[i] = keys[j] => i = j

\* C25: every set (or setValue) call leaves an attribute list that holds
\* each key once: a key that is in the list keeps its place and no entry is
\* added for it, a new key is added at the end, the value of the key is the
\* one written last, and the serialized element carries each attribute
\* name once.
C25_AttributeListHoldsEachKeyOnce ==
    [][(Building /\ anEvent' # anEvent /\ anEvent'.m_data = anEvent.m_data) =>
          /\ EachKeyOnce(anEvent'.m_keys)
          /\ \/ anEvent'.m_keys = anEvent.m_keys
             \/ \E name \in AttrNames :
                   /\ name \notin DOMAIN anEvent.m_values
                   /\ anEvent'.m_keys = Append(anEvent.m_keys, name)
          /\ DOMAIN anEvent'.m_values = {anEvent'.m_keys[i] : i \in 1..Len(anEvent'.m_keys)}
          /\ WellFormed(Serialize(anEvent'))]_vars

\* C26: after any sequence of record and replay calls the manager does
\* not have a recorder and a replay at the same time.
C26_RecorderAndReplayExclusive ==
    ~(m_record # NULL /\ m_replay # NULL)

\* the element has no attribute of this name, or one whose value is not
\* the text of a number
NoNumber(el, name) ==
    \A i \in 1..Len(el.attrs) :
        el.attrs[i].name = name =>
            \A n \in LongRange : el.attrs[i].value # Number(n)

\* the element of the replay text that the latest lookup has found
FoundElement == KnownElements[last.found]

\* C27: malformed replay data never ends the process: a replayed read or
\* write that finds an event whose len is missing or no number returns -1,
\* a replayed bytesAvailable that finds an event whose value is no number
\* returns 0, and a text with a set or get element that has no attribute
\* besides time is parsed without a crash.
C27_MalformedDataNeverAborts ==
    /\ ~aborted
    /\ (last.op \in {"read", "write"} /\ last.replayed /\ last.found # NULL
        /\ NoNumber(FoundElement, "len"))
       => last.len = 0 - 1
    /\ (last.op = "bytesAvailable" /\ last.replayed /\ last.found # NULL
        /\ NoNumber(FoundElement, "bytesAvailable"))
       => last.len = 0

\* the text setData makes of these bytes
PayloadText(bytes) == setData(XmlReplayEvent("tx"), bytes).m_data

\* the positions in KnownElements of the tx events with this payload text
TxPositions(text) ==
    SelectSeq([k \in 1..Len(KnownElements) |-> k],
              LAMBDA k : KnownElements[k].tag = "tx" /\ KnownElements[k].text = text)

\* the write calls of these bytes made so far
WritesOf(bytes) ==
    Cardinality({i \in 1..Len(script) :
                    script[i].op = "write" /\ script[i].bytes = bytes})

\* the number a len attribute of the element states
RecordedLen(el) ==
    CHOOSE n \in LongRange :
        \E i \in 1..Len(el.attrs) : el.attrs[i] = Attr("len", Number(n))

\* C28: in replay mode the k-th write of bytes B finds the k-th tx event
\* of the text whose payload is B and returns its recorded len, while
\* there is one; it finds no event otherwise, and never one whose payload
\* is not B.
C28_WriteConsumesTxOfSamePayload ==
    (last.op = "write" /\ last.replayed) =>
        LET matching == TxPositions(PayloadText(LastCall.bytes))
            k == WritesOf(LastCall.bytes)
        IN  IF k <= Len(matching)
            THEN /\ last.found = matching[k]
                 /\ last.len = RecordedLen(KnownElements[matching[k]])
            ELSE /\ last.found = NULL
                 /\ last.len = 0 - 1

\* two writes of the same two bytes returned 2 and then 1, the len of the
\* two tx events of the text with that payload
C28_Witness ==
    /\ Len(script) = 3
    /\ script[1].op = "write" /\ script[1].bytes = <<10>>
    /\ script[2].op = "write" /\ script[2].bytes = <<10, 255>>
    /\ script[3].op = "write" /\ script[3].bytes = <<10, 255>>
    /\ Len(lookups) = 3
    /\ lookups[1].event = NULL
    /\ lookups[2].event = 1
    /\ lookups[3].event = 2
    /\ last.len = 1
    /\ RecordedLen(stream[1]) = 2

\* the positions in KnownElements of the rx events
RxPositions ==
    SelectSeq([k \in 1..Len(KnownElements) |-> k],
              LAMBDA k : KnownElements[k].tag = "rx")

\* C29: in replay mode the k-th read, of any connection and with any
\* maxSize, finds the k-th rx event of the text and returns its recorded
\* len, also a len above maxSize; past the last rx event it finds none.
\* The rx events are queued under the empty identity alone.
C29_ReadConsumesOldestRx ==
    /\ (last.op = "read" /\ last.replayed) =>
          LET k == Len(script)
          IN  IF k <= Len(RxPositions)
              THEN /\ last.found = RxPositions[k]
                   /\ last.len = RecordedLen(KnownElements[RxPositions[k]])
              ELSE /\ last.found = NULL
                   /\ last.len = 0 - 1
    /\ \A i \in 1..Len(replays) :
          "rx" \in DOMAIN replays[i].m_eventIndex =>
              DOMAIN replays[i].m_eventIndex["rx"] = {""}

\* after a read of the first connection, a read of the second connection
\* with maxSize 0 returned the len of the second rx event, which is above
\* the size of any buffer
C29_Witness ==
    /\ Len(script) = 2
    /\ script[1].op = "read" /\ script[1].conn = 1 /\ script[1].num = ReadSize
    /\ script[2].op = "read" /\ script[2].conn = 2 /\ script[2].num = 0
    /\ Len(stream) = 2
    /\ stream[1].tag = "rx"
    /\ last.found = 2
    /\ last.len = ReadSize + 1
    /\ last.ok

\* the number the first attribute besides time of the element states
RecordedValue(el) ==
    CHOOSE n \in LongRange : Tuple(el).attrs[1].value = Number(n)

\* C30: in replay mode a call whose lookup finds an event has an outcome
\* with the attribute list and the payload of the recorded event and none
\* of the attributes built from the call's arguments; the events the
\* replay holds stay as they were parsed; a call that returns a truth
\* value returns success exactly if the recorded event has no "error"
\* attribute, read and write return the recorded len and bytesAvailable
\* the recorded value.
C30_OutcomeIsTheRecordedEvent ==
    (last.hasEvent /\ last.replayed /\ last.found # NULL) =>
        /\ Tuple(Serialize(last.event)) = Tuple(FoundElement)
        /\ last.event.m_data = FoundElement.text
        /\ \A i \in 1..Len(replays) :
              replays[i].m_events = XmlReplay(StreamDocument(stream)).m_events
        /\ last.op \in BoolOperations => (last.ok <=> ~HasAttr(FoundElement, "error"))
        /\ last.op \in {"read", "write"} => last.len = RecordedLen(FoundElement)
        /\ last.op = "bytesAvailable" => last.len = RecordedValue(FoundElement)

\* setBaudRate(9600, AllDirections) found the event recorded for 1200 baud
\* in one direction and returned success
C30_Witness ==
    /\ last.op = "setBaudRate"
    /\ LastCall.num = 9600
    /\ last.replayed
    /\ last.found # NULL
    /\ get(last.event, "baudRate") = Number(1200)
    /\ get(last.event, "directions") = Number(1)
    /\ last.ok

\* the outcome event of the latest call has an "error" attribute
OutcomeHasError == "error" \in DOMAIN last.event.m_values

\* C31: in live mode open, the set operations, clear and flush return true
\* exactly if the outcome event has no "error" attribute, and the outcome
\* has one exactly if the call on the port returned false or the port's
\* error() is not NoError; the outcome of read, write and bytesAvailable
\* has one exactly if the returned length is negative or error() is not
\* NoError.
C31_LiveOutcomeReflectsTransport ==
    (last.hasEvent /\ last.port.called) =>
        /\ last.op \in BoolOperations =>
              /\ last.ok <=> ~OutcomeHasError
              /\ OutcomeHasError <=>
                    (~last.port.result.ok \/ last.port.result.error # NoError)
        /\ last.op \in {"read", "write", "bytesAvailable"} =>
              /\ last.len = last.port.result.len
              /\ OutcomeHasError <=>
                    (last.len < 0 \/ last.port.result.error # NoError)

\* a set operation whose call on the port returned true while error() was
\* not NoError has returned false
C31_Witness ==
    /\ last.op = "setBaudRate"
    /\ last.port.called
    /\ last.port.result.ok
    /\ last.port.result.error # NoError
    /\ OutcomeHasError
    /\ ~last.ok

\* the closeConnection outcomes recorded so far
ClosesRecorded ==
    Cardinality({i \in 1..Len(recorders[1].events) :
                    recorders[1].events[i].tag = "closeConnection"})

\* the call of this step, and the SerialPort object it was made on
StepCall == script'[Len(script')]

\* C32: a successful open of a SerialPort object leaves the manager
\* mapping the port name to the connection of the object; close or
\* destruction of an object with a connection closes that connection once
\* (one more closeConnection outcome), leaves the name unmapped and the
\* object without a connection, so that openConnection does not refuse
\* the name; a failed open leaves the object without a connection and the
\* map unchanged.
C32_FacadeStep ==
    LET f == StepCall.num
        name == facades[f].m_portName
    IN  /\ (StepCall.op = "SerialPort::open" /\ last'.ok) =>
              /\ facades'[f].m_conn # NULL
              /\ name \in DOMAIN m_connections'
              /\ m_connections'[name] = facades'[f].m_conn
              /\ conns'[facades'[f].m_conn].m_opened
        /\ (StepCall.op = "SerialPort::open" /\ ~last'.ok) =>
              /\ facades'[f].m_conn = NULL
              /\ m_connections' = m_connections
        /\ (StepCall.op \in {"SerialPort::close", "SerialPort::~SerialPort"}
            /\ facades[f].m_conn # NULL) =>
              /\ ClosesRecorded' = ClosesRecorded + 1
              /\ conns[facades[f].m_conn].m_name \notin DOMAIN m_connections'
              /\ facades'[f].m_conn = NULL
              /\ ~conns'[facades[f].m_conn].alive
              /\ "serial" \in s_factories

C32_FacadeOwnsItsConnection == [][C32_FacadeStep]_vars

\* an object opened COM3, closed it and opened it again
C32_Witness ==
    /\ Len(script) = 3
    /\ script[1].op = "SerialPort::open"
    /\ script[2].op = "SerialPort::close"
    /\ script[3].op = "SerialPort::open"
    /\ script[1].num = script[3].num
    /\ last.ok
    /\ ClosesRecorded = 1
    /\ "COM3" \in DOMAIN m_connections

\* C33: in replay mode a lookup that has been called returns, whatever the
\* index holds, and with it the operation that called it; a session of
\* lookups runs to completion also when the index is empty or exhausted.
C33_ReplayLookupReturns ==
    /\ (threads["operation"].pc # "idle") ~> (threads["operation"].pc = "idle")
    /\ <>[](/\ threads["operation"].pc = "idle"
            /\ threads["operation"].calls = MaxLookups
            /\ Len(lookups) = MaxLookups)

\* two lookups on the index of an empty text have returned without an event
C33_Witness ==
    /\ phase = "lookup"
    /\ stream = <<>>
    /\ threads["operation"].pc = "idle"
    /\ Len(lookups) = 2
    /\ lookups[1].event = NULL
    /\ lookups[2].event = NULL

\* the latest call was made on a connection that close() was called on, with
\* no open or construction of that connection in between
ClosedBefore ==
    \E i \in 1..(Len(script) - 1) :
        /\ script[i].op = "close"
        /\ script[i].conn = last.conn
        /\ \A j \in (i + 1)..(Len(script) - 1) :
              script[j].op \notin {"openConnection", "createInstance", "open", "delete"}

\* C34: after close() the connection is closed: its destruction performs
\* no second close (no further closeConnection outcome), and open() is
\* not refused as already opened.
C34_CloseLeavesConnectionClosed ==
    (phase = "issue" /\ pc = 1 /\ ClosedBefore) =>
        /\ last.op = "delete" => ~last.hasEvent
        /\ last.op = "open" => last.warning # AlreadyOpened

\* C35: an operation on an existing connection that records its outcome
\* records it to the recorder the manager has at that time, never to one
\* the manager has finalized and deleted, and the process goes on.
C35_Step ==
    (/\ script' # script
     /\ last'.recorded
     /\ last'.conn # NULL
     /\ conns'[last'.conn].alive)
    => /\ conns'[last'.conn].m_record = m_record
       /\ ~recorders[conns'[last'.conn].m_record].closed
       /\ ~aborted'

C35_NoUseOfDiscardedRecorder == [][C35_Step]_vars

\* the entries of all queues of an index
QueueEntries(ix) ==
    UNION {UNION {{<<t, i, k>> : k \in 1..Len(ix[t][i])} : i \in DOMAIN ix[t]} :
           t \in DOMAIN ix}

\* the lookups made so far in a replay that found an event
Returned(rpl) ==
    {k \in 1..Len(lookups) : lookups[k].replay = rpl /\ lookups[k].event # NULL}

\* what the lookup of this step did to the replay it was made in
C36_Step ==
    (Len(lookups') = Len(lookups) + 1) =>
        LET l == lookups'[Len(lookups')]
            before == replays[l.replay]
            after == replays'[l.replay]
        IN  /\ after.m_events = before.m_events
            /\ after.m_next = before.m_next
            /\ \A rpl \in 1..Len(replays) : rpl # l.replay => replays'[rpl] = replays[rpl]
            /\ IF l.event # NULL
               THEN /\ l.type \in DOMAIN before.m_eventIndex
                    /\ l.ident \in DOMAIN before.m_eventIndex[l.type]
                    /\ before.m_eventIndex[l.type][l.ident] # <<>>
                    /\ l.event = Head(before.m_eventIndex[l.type][l.ident])
                    /\ after.m_eventIndex =
                          [before.m_eventIndex EXCEPT ![l.type][l.ident] = Tail(@)]
               ELSE /\ after.m_eventIndex = before.m_eventIndex
                    /\ DOMAIN after.m_eventIndex = DOMAIN before.m_eventIndex
                    /\ \A t \in DOMAIN before.m_eventIndex :
                          DOMAIN after.m_eventIndex[t] = DOMAIN before.m_eventIndex[t]
                    /\ \/ l.type \notin DOMAIN before.m_eventIndex
                       \/ l.ident \notin DOMAIN before.m_eventIndex[l.type]
                       \/ before.m_eventIndex[l.type][l.ident] = <<>>

\* C36: a lookup that finds an event removes the head of the queue of its
\* key and nothing else; one that finds none leaves the index as it is,
\* with no key added; no lookup changes the chain; the events returned
\* and the events still queued are together the events parsed.
C36_LookupChangesOwnQueueOnly ==
    /\ [][C36_Step]_vars
    /\ [](\A rpl \in 1..Len(replays) :
            Cardinality(Returned(rpl))
                + Cardinality(QueueEntries(replays[rpl].m_eventIndex))
            = Len(replays[rpl].m_events))

\* one lookup found an event, one asked for a discriminator the index does
\* not have, and one asked at a queue that had been emptied
C36_Witness ==
    \E i, j, k \in 1..Len(lookups) :
        /\ lookups[i].event # NULL
        /\ lookups[j].event = NULL
        /\ lookups[j].type \notin DOMAIN replays[lookups[j].replay].m_eventIndex
        /\ i < k
        /\ lookups[k].type = lookups[i].type
        /\ lookups[k].ident = lookups[i].ident
        /\ lookups[k].event = NULL

\* C37: once a lookup of a key has found no event, no later lookup of
\* that key in the same replay finds one.
C37_ExhaustionIsPermanent ==
    \A i, j \in 1..Len(lookups) :
        (/\ i < j
         /\ lookups[i].replay = lookups[j].replay
         /\ lookups[i].type = lookups[j].type
         /\ lookups[i].ident = lookups[j].ident
         /\ lookups[i].event = NULL)
        => lookups[j].event = NULL

\* three writes of the same byte against a text with one tx event of that
\* payload: the first found it, the second and the third found none
C37_Witness ==
    /\ Len(lookups) = 3
    /\ \A i \in 1..3 : lookups[i].type = "tx" /\ lookups[i].ident = lookups[1].ident
    /\ lookups[1].event # NULL
    /\ lookups[2].event = NULL
    /\ lookups[3].event = NULL

\* C38: open() on a connection that is opened returns false and changes
\* nothing: no event recorded, no replay event consumed, no call on the
\* port, the connection still opened and the manager's map as it was.
C38_Step ==
    (/\ script' # script
     /\ StepCall.op = "open"
     /\ conns[StepCall.conn].m_opened)
    => /\ ~last'.ok
       /\ ~last'.hasEvent
       /\ UNCHANGED <<recorders, replays, lookups, portCalls, conns,
                      m_connections, m_record, m_replay>>
       /\ conns'[StepCall.conn].m_opened

C38_OpenOnOpenedChangesNothing == [][C38_Step]_vars

\* open() was called on a connection that openConnection had opened, which
\* is still registered
C38_Witness ==
    /\ last.op = "open"
    /\ last.warning = AlreadyOpened
    /\ ~last.ok
    /\ conns[last.conn].m_opened
    /\ conns[last.conn].m_name \in DOMAIN m_connections
    /\ m_connections[conns[last.conn].m_name] = last.conn

\* the events one reaches from event i by the next-links
RECURSIVE Chain(_, _)
Chain(r, i) == IF i = NULL THEN <<>> ELSE <<i>> \o Chain(r, r.m_next[i])

\* the queues of the index that hold event n, as keys with positions
QueuesHolding(ix, n) ==
    {entry \in QueueEntries(ix) : ix[entry[1]][entry[2]][entry[3]] = n}

\* C39: the next-link of the i-th parsed event is the (i+1)-th parsed
\* event, whatever the kinds of the two, and the last event has none, so
\* that the chain from the first event is all events in the order of the
\* text; an event is in at most one queue of the index, and in exactly
\* one before the first lookup.
C39_ChainLinksAllEvents ==
    \A rpl \in 1..Len(replays) :
        LET r == replays[rpl]
            n == Len(r.m_events)
        IN  /\ Len(r.m_next) = n
            /\ \A i \in 1..n : r.m_next[i] = IF i < n THEN i + 1 ELSE NULL
            /\ n > 0 => Chain(r, 1) = [i \in 1..n |-> i]
            /\ \A entry \in QueueEntries(r.m_eventIndex) :
                   r.m_eventIndex[entry[1]][entry[2]][entry[3]] \in 1..n
            /\ \A i \in 1..n :
                   /\ Cardinality(QueuesHolding(r.m_eventIndex, i)) <= 1
                   /\ lookups = <<>> =>
                          Cardinality(QueuesHolding(r.m_eventIndex, i)) = 1

\* a text with a transmitted-data event and an openConnection event in one
\* container and a flush event in a second one was parsed: the three are
\* linked in this order, and each is in the queue of its own key
C39_Witness ==
    /\ phase = "parse"
    /\ lookups = <<>>
    /\ Len(document.children) = 2
    /\ Len(document.children[1].elems) = 2
    /\ document.children[1].elems[1].tag = "tx"
    /\ document.children[1].elems[2].tag = "openConnection"
    /\ document.children[2].name = "events"
    /\ Len(document.children[2].elems) = 1
    /\ document.children[2].elems[1].tag = "flush"
    /\ Len(replays) = 1
    /\ replays[1].m_next = <<2, 3, NULL>>
    /\ replays[1].m_eventIndex["openConnection"]["COM3"] = <<2>>
    /\ replays[1].m_eventIndex["flush"][""] = <<3>>

====
